---- MODULE Spec2Model ----
(***************************************************************************)
(* A model of prez's SPARQL query synthesis: the predicate resolver, the   *)
(* fragment builders and the query assemblers of services/sparql_new.py,   *)
(* the SpacePrez service operations of services/spaceprez_service.py and   *)
(* the full-text search query builder of                                   *)
(* services/query_generation/search_fuseki_fts.py.                         *)
(*                                                                         *)
(* Query text is modelled as the sequence of its lexical tokens            *)
(* (whitespace carries no token); a token is a pair <<kind, text>>.  The   *)
(* empty string is the empty token sequence.  An optional Python value is  *)
(* a sequence of length at most one: None is <<>>, a present v is <<v>>.   *)
(***************************************************************************)
EXTENDS Integers, Sequences, FiniteSets, TLC

VARIABLES
    profiles_graph_cache,  \* the profile graph: a set of triples <<s, p, o>>
    caches,                \* the memoization caches, by function name (LRU order)
    pc,                    \* "idle": no call in progress; "constructed": an object
                           \* was built and is held; "returned": a call ended
    call,                  \* the operation called and its arguments
    sent,                  \* the queries handed to the triplestore by the call
    result,                \* the call's outcome: a value returned or an exception
    search_query,          \* the SearchQueryFusekiFTS object constructed, if any
    store,                 \* the contents of the triplestore, as a version
    traversals,            \* how often each predicate resolution has read the
                           \* profile graph, by (function, profile, class)
    requests,              \* the number of calls that have ended
    answered               \* what the triplestore answered to each query of sent

vars == <<profiles_graph_cache, caches, pc, call, sent, result, search_query, store,
          traversals, requests, answered>>

----------------------------------------------------------------------------
(* Python values *)

None == <<>>
Some(v) == <<v>>

\* truthiness of an optional string (None and "" are falsy)
Truthy(o) == o # None /\ o[1] # ""

\* truthiness of an optional list (None and [] are falsy)
TruthyList(o) == o # None /\ o[1] # <<>>

\* f"{o}" for an optional string
FStr(o) == IF o = None THEN "None" ELSE o[1]

\* f"{o}" for an optional int
FInt(o) == IF o = None THEN "None" ELSE ToString(o[1])

\* range(n)
Range(n) == 0 .. (n - 1)

RECURSIVE Concat(_)
\* "".join(parts), on token sequences
Concat(parts) == IF parts = <<>> THEN <<>> ELSE Head(parts) \o Concat(Tail(parts))

RECURSIVE SetToSeq(_)
\* list(S): the members of a set in the store's iteration order
SetToSeq(S) ==
    IF S = {} THEN <<>>
    ELSE LET x == CHOOSE y \in S : TRUE IN <<x>> \o SetToSeq(S \ {x})

SeqToSet(s) == {s[i] : i \in 1 .. Len(s)}

----------------------------------------------------------------------------
(* Tokens *)

Kw(k) == <<"kw", k>>          \* a keyword, function name or prefixed name
Punct(c) == <<"punct", c>>    \* { } ( ) . ; |
Var(n) == <<"var", n>>        \* ?n
Iri(u) == <<"iri", u>>        \* <u>
Str(s) == <<"str", s>>        \* "s"
Num(n) == <<"num", ToString(n)>>  \* an integer, as an f-string prints it

Dot == Punct(".")
LBrace == Punct("{")
RBrace == Punct("}")
LPar == Punct("(")
RPar == Punct(")")
Semi == Punct(";")
Comma == Punct(",")

\* PREFIX name: <namespace>
Prefix(name, ns) == <<Kw("PREFIX"), Kw(name), Iri(ns)>>

\* the namespaces the queries declare
DCAT == "http://www.w3.org/ns/dcat#"
DCTERMS == "http://purl.org/dc/terms/"
GEO == "http://www.opengis.net/ont/geosparql#"
PREZ == "https://kurrawong.net/prez/"
RDF == "http://www.w3.org/1999/02/22-rdf-syntax-ns#"
RDFS == "http://www.w3.org/2000/01/rdf-schema#"
SKOS == "http://www.w3.org/2004/02/skos/core#"
XSD == "http://www.w3.org/2001/XMLSchema#"

\* ?name{i}
VarN(name, i) == Var(name \o ToString(i))

IsVar(t) == t[1] = "var"

\* the variables of a token sequence
VarsOf(q) == {q[i] : i \in {j \in 1 .. Len(q) : IsVar(q[j])}}

\* the number of occurrences of token t in q
Count(q, t) == Cardinality({i \in 1 .. Len(q) : q[i] = t})

\* the first position of token t in q, 0 when absent
IndexOf(q, t) ==
    IF \E i \in 1 .. Len(q) : q[i] = t
    THEN CHOOSE i \in 1 .. Len(q) : q[i] = t /\ \A j \in 1 .. (i - 1) : q[j] # t
    ELSE 0

----------------------------------------------------------------------------
(* The profile graph (prez.cache.profiles_graph_cache, an rdflib Graph) *)

hasNodeShape == "altr-ext:hasNodeShape"
hasBNodeDepth == "altr-ext:hasBNodeDepth"
inboundChildren == "altr-ext:inboundChildren"
inboundParents == "altr-ext:inboundParents"
outboundChildren == "altr-ext:outboundChildren"
outboundParents == "altr-ext:outboundParents"
targetClass == "sh:targetClass"
subClassOf == "rdfs:subClassOf"
constrainsClass == "altr-ext:constrainsClass"
hasResourceFormat == "altr-ext:hasResourceFormat"
hasDefaultProfile == "altr-ext:hasDefaultProfile"
hasDefaultResourceFormat == "altr-ext:hasDefaultResourceFormat"
shPath == "sh:path"
shInversePath == "sh:inversePath"
shSequencePath == "sh:sequencePath"
rdfFirst == "rdf:first"
rdfRest == "rdf:rest"
rdfNil == "rdf:nil"

\* Graph.objects(subject, predicate)
Objects(g, s, p) == {t[3] : t \in {u \in g : u[1] = s /\ u[2] = p}}

\* Graph.triples_choices((subjects, predicate, object)): object None is a wildcard
TriplesChoices(g, subjects, p, o) ==
    {t \in g : t[1] \in SeqToSet(subjects) /\ t[2] = p /\ (o = None \/ t[3] = o[1])}

\* Graph.value(subject, predicate, None, default)
GraphValue(g, s, p, default) ==
    IF Objects(g, s, p) = {} THEN default
    ELSE Some(CHOOSE o \in Objects(g, s, p) : TRUE)

RECURSIVE RdfListItems(_, _)
\* Graph.items(list): the members of an RDF list, in list order
RdfListItems(g, node) ==
    IF node = rdfNil \/ Objects(g, node, rdfFirst) = {} THEN <<>>
    ELSE <<CHOOSE o \in Objects(g, node, rdfFirst) : TRUE>>
         \o (IF Objects(g, node, rdfRest) = {} THEN <<>>
             ELSE RdfListItems(g, CHOOSE o \in Objects(g, node, rdfRest) : TRUE))

\* the integer a depth literal of the graph denotes
LiteralToInt(l) == CHOOSE n \in 0 .. 99 : ToString(n) = l

----------------------------------------------------------------------------
(* Predicate resolver *)

\* get_relevant_shape_bns_for_profile(selected_class, profile):
\* None when the profile has no node shape, else the list of the shapes of
\* the profile that target selected_class
get_relevant_shape_bns_for_profile(g, selected_class, profile) ==
    LET shape_bns == SetToSeq(Objects(g, profile, hasNodeShape))
    IN  IF shape_bns = <<>> THEN None
        ELSE LET hits == SetToSeq(TriplesChoices(g, shape_bns, targetClass, Some(selected_class)))
             IN  Some([i \in 1 .. Len(hits) |-> hits[i][1]])

\* [i[2] for i in profiles_graph_cache.triples_choices((shape_bns, predicate, None))]
AnnotationObjects(g, shape_bns, predicate) ==
    LET hits == SetToSeq(TriplesChoices(g, shape_bns, predicate, None))
    IN  [i \in 1 .. Len(hits) |-> hits[i][3]]

\* get_listing_predicates(profile, selected_class):
\* (inbound_children, inbound_parents, outbound_children, outbound_parents)
get_listing_predicates(g, profile, selected_class) ==
    LET shape_bns == get_relevant_shape_bns_for_profile(g, selected_class, profile)
    IN  IF ~TruthyList(shape_bns)
        THEN [inbound_children |-> <<>>, inbound_parents |-> <<>>,
              outbound_children |-> <<>>, outbound_parents |-> <<>>]
        ELSE [inbound_children |-> AnnotationObjects(g, shape_bns[1], inboundChildren),
              inbound_parents |-> AnnotationObjects(g, shape_bns[1], inboundParents),
              outbound_children |-> AnnotationObjects(g, shape_bns[1], outboundChildren),
              outbound_parents |-> AnnotationObjects(g, shape_bns[1], outboundParents)]

\* the placeholder the source binds to excludes (Python's Ellipsis)
Ellipsis == "Ellipsis"

\* get_item_predicates(profile, selected_class):
\* (includes, excludes, inverses, sequence_paths), each None when no shape applies
get_item_predicates(g, profile, selected_class) ==
    LET shape_bns == get_relevant_shape_bns_for_profile(g, selected_class, profile)
    IN  IF ~TruthyList(shape_bns)
        THEN [include |-> None, exclude |-> None, inverse |-> None, sequence |-> None]
        ELSE LET sequence_nodes == AnnotationObjects(g, shape_bns[1], shSequencePath)
             IN  [include |-> Some(AnnotationObjects(g, shape_bns[1], shPath)),
                  exclude |-> Some(Ellipsis),
                  inverse |-> Some(AnnotationObjects(g, shape_bns[1], shInversePath)),
                  sequence |-> Some([i \in 1 .. Len(sequence_nodes) |->
                                        RdfListItems(g, sequence_nodes[i])])]

----------------------------------------------------------------------------
(* Fragment builders *)

\* VALUES ?v { <p1> <p2> ... } for a list of predicates
ValuesClause(v, preds) ==
    <<Kw("VALUES"), Var(v), LBrace>> \o [i \in 1 .. Len(preds) |-> Iri(preds[i])] \o <<RBrace>>

\* generate_include_predicates(include_predicates)
generate_include_predicates(include_predicates) ==
    IF TruthyList(include_predicates) THEN ValuesClause("p", include_predicates[1]) ELSE <<>>

\* generate_inverse_predicates(inverse_predicates)
generate_inverse_predicates(inverse_predicates) ==
    IF TruthyList(inverse_predicates) THEN ValuesClause("inbound_p", inverse_predicates[1])
    ELSE <<>>

\* the triples generate_sequence_construct writes for one predicate list
SequenceChain(object_uri, predicate_list) ==
    <<Iri(FStr(object_uri)), Iri(predicate_list[1]), VarN("seq_o", 1), Dot>>
    \o Concat([i \in 1 .. (Len(predicate_list) - 1) |->
                  <<VarN("seq_o", i), Iri(predicate_list[i + 1]), VarN("seq_o", i + 1), Dot>>])

\* generate_sequence_construct(object_uri, sequence_predicates)
generate_sequence_construct(object_uri, sequence_predicates) ==
    IF TruthyList(sequence_predicates)
    THEN Concat([k \in 1 .. Len(sequence_predicates[1]) |->
                    SequenceChain(object_uri, sequence_predicates[1][k])])
    ELSE <<>>

\* the triple ?o{i+1} ?p{i+2} ?o{i+2} . of blank-node level i
BNodeTriple(i) == <<VarN("o", i + 1), VarN("p", i + 2), VarN("o", i + 2), Dot>>

\* generate_bnode_construct with one triple too many (range(depth + 1))
generate_bnode_construct_ExtraTriple(depth) ==
    Concat([k \in 1 .. Cardinality(Range(depth + 1)) |-> BNodeTriple(k - 1)])

\* generate_bnode_construct(depth)
generate_bnode_construct(depth) ==
    Concat([k \in 1 .. Cardinality(Range(depth)) |-> BNodeTriple(k - 1)])

\* the opening of the OPTIONAL block of blank-node level i
BNodeOptional(i) ==
    <<Kw("OPTIONAL"), LBrace, Kw("FILTER"), LPar, Kw("ISBLANK"), LPar, VarN("o", i + 1), RPar, RPar>>
    \o BNodeTriple(i)

\* generate_bnode_select that leaves the innermost block open
generate_bnode_select_Unclosed(depth) ==
    LET part_one == Concat([k \in 1 .. Cardinality(Range(depth)) |-> BNodeOptional(k - 1)])
        part_two == [k \in 1 .. Cardinality(Range(depth - 1)) |-> RBrace]
    IN  part_one \o part_two

\* generate_bnode_select(depth)
generate_bnode_select(depth) ==
    LET part_one == Concat([k \in 1 .. Cardinality(Range(depth)) |-> BNodeOptional(k - 1)])
        part_two == [k \in 1 .. Cardinality(Range(depth)) |-> RBrace]
    IN  part_one \o part_two

\* " ".join('<' + pred + '>' for pred in preds)
JoinIris(preds) == [i \in 1 .. Len(preds) |-> Iri(preds[i])]

\* FILTER(DATATYPE(?v) = xsd:token)
FilterToken(v) ==
    <<Kw("FILTER"), LPar, Kw("DATATYPE"), LPar, Var(v), RPar, Punct("="), Kw("xsd:token"), RPar>>

\* generate_outbound_predicates(item, outbound_children, outbound_parents)
generate_outbound_predicates(item, outbound_children, outbound_parents) ==
    IF Truthy(item.uri)
    THEN (IF outbound_children # <<>>
          THEN <<Iri(FStr(item.uri)), Var("outbound_children"), Var("item"), Dot,
                 Var("item"), Kw("dcterms:identifier"), Var("outbound_children_id"), Dot>>
               \o FilterToken("outbound_children_id")
               \o <<Kw("VALUES"), Var("outbound_children"), LBrace>>
               \o JoinIris(outbound_children) \o <<RBrace>>
          ELSE <<>>)
         \o (IF outbound_parents # <<>>
             THEN <<Iri(FStr(item.uri)), Var("outbound_parents"), Var("item"), Dot,
                    Var("item"), Kw("dcterms:identifier"), Var("outbound_parents_id"), Dot>>
                  \o FilterToken("outbound_parents_id")
                  \o <<Kw("VALUES"), Var("outbound_parents"), LBrace>>
                  \o JoinIris(outbound_parents) \o <<RBrace>>
             ELSE <<>>)
         \o (IF outbound_children = <<>> /\ outbound_parents = <<>>
             THEN <<Kw("VALUES"), Var("outbound_children"), LBrace, RBrace,
                    Kw("VALUES"), Var("outbound_parents"), LBrace, RBrace>>
             ELSE <<>>)
    ELSE <<>>

\* generate_inbound_predicates(item, inbound_children, inbound_parents)
generate_inbound_predicates(item, inbound_children, inbound_parents) ==
    IF inbound_children = <<>> /\ inbound_parents = <<>> THEN <<>>
    ELSE (IF inbound_children # <<>>
          THEN <<Var("inbound_child_s"), Var("inbound_child"), Iri(FStr(item.uri)), Semi,
                 Kw("dcterms:identifier"), Var("inbound_children_id"), Dot>>
               \o FilterToken("inbound_children_id")
               \o <<Kw("VALUES"), Var("inbound_child"), LBrace>>
               \o JoinIris(inbound_children) \o <<RBrace>>
          ELSE <<>>)
         \o (IF inbound_parents # <<>>
             THEN <<Var("inbound_parent_s"), Var("inbound_parent"), Iri(FStr(item.uri)), Semi,
                    Kw("dcterms:identifier"), Var("inbound_parent_id"), Dot>>
                  \o FilterToken("inbound_parent_id")
                  \o <<Kw("VALUES"), Var("inbound_parent"), LBrace>>
                  \o JoinIris(inbound_parents) \o <<RBrace>>
             ELSE <<>>)

\* BIND(CONCAT("{link_constructor}", "/", STR(?id)) AS ?link)
BindConcatLink(link_constructor, id, link) ==
    <<Kw("BIND"), LPar, Kw("CONCAT"), LPar, Str(link_constructor), Comma, Str("/"), Comma,
      Kw("STR"), LPar, Var(id), RPar, RPar, Kw("AS"), Var(link), RPar>>

\* BIND("{link_constructor}" AS ?link)
BindLink(link_constructor, link) ==
    <<Kw("BIND"), LPar, Str(link_constructor), Kw("AS"), Var(link), RPar>>

\* generate_id_listing_binds(item, ic, ip, oc, op)
generate_id_listing_binds(item, ic, ip, oc, op) ==
    LET binds ==
            (IF ic # <<>>
             THEN BindConcatLink(item.link_constructor, "inbound_children_id", "inbound_children_link")
             ELSE <<>>)
            \o (IF oc # <<>>
                THEN BindConcatLink(item.link_constructor, "outbound_children_id", "outbound_children_link")
                ELSE <<>>)
            \o (IF ip # <<>> THEN BindLink(item.link_constructor, "inbound_parent_link") ELSE <<>>)
            \o (IF op # <<>> THEN BindLink(item.link_constructor, "outbound_parent_link") ELSE <<>>)
    IN  IF binds = <<>>
        THEN BindConcatLink(item.link_constructor, "outbound_id", "outbound_general_link")
        ELSE binds

\* the pagination clause with the offset of the page after
LimitOffset_NextPage(page, per_page) ==
    IF page # None /\ per_page # None
    THEN <<Kw("LIMIT"), Num(per_page[1]), Kw("OFFSET"), Num(page[1] * per_page[1])>>
    ELSE <<>>

\* f"LIMIT {per_page} OFFSET {(page - 1) * per_page}" if page is not None and
\* per_page is not None else "" (the same expression closes the queries of
\* list_datasets, list_collections and list_features)
LimitOffset(page, per_page) ==
    IF page # None /\ per_page # None
    THEN <<Kw("LIMIT"), Num(per_page[1]), Kw("OFFSET"), Num((page[1] - 1) * per_page[1])>>
    ELSE <<>>

----------------------------------------------------------------------------
(* Query assemblers *)

\* the early return of generate_listing_construct that forgets the parent's URI
NothingToList_AnyParent(parent_item, preds) ==
    /\ preds.inbound_children = <<>>
    /\ preds.inbound_parents = <<>>
    /\ preds.outbound_children = <<>>
    /\ preds.outbound_parents = <<>>

\* the condition of the early return "" of generate_listing_construct
NothingToList(parent_item, preds) ==
    /\ Truthy(parent_item.uri)
    /\ preds.inbound_children = <<>>
    /\ preds.inbound_parents = <<>>
    /\ preds.outbound_children = <<>>
    /\ preds.outbound_parents = <<>>

\* the member-list triples of the CONSTRUCT template, for a parent without URI
MemberListTemplate(parent_item) ==
    IF ~Truthy(parent_item.uri)
    THEN <<Kw("prez:memberList"), Kw("a"), Kw("rdf:Bag"), Semi,
           Kw("rdfs:member"), Var("item"), Dot,
           Var("item"), Kw("prez:link"), Var("outbound_general_link")>>
    ELSE <<>>

\* a class pattern written whether or not the parent has a URI
GeneralClassPattern_Always(parent_item) ==
    <<Var("item"), Kw("a"), Iri(parent_item.general_class), Dot,
      Var("item"), Kw("dcterms:identifier"), Var("outbound_id"), Dot>>

\* the class pattern of the WHERE clause, for a parent without URI
GeneralClassPattern(parent_item) ==
    IF ~Truthy(parent_item.uri)
    THEN <<Var("item"), Kw("a"), Iri(parent_item.general_class), Dot,
           Var("item"), Kw("dcterms:identifier"), Var("outbound_id"), Dot>>
    ELSE <<>>

\* generate_listing_construct(parent_item, profile, page, per_page)
generate_listing_construct(g, parent_item, profile, page, per_page) ==
    LET preds == get_listing_predicates(g, profile, parent_item.selected_class)
        inbound_children == preds.inbound_children
        inbound_parents == preds.inbound_parents
        outbound_children == preds.outbound_children
        outbound_parents == preds.outbound_parents
        uri == Iri(FStr(parent_item.uri))
    IN  IF NothingToList(parent_item, preds)
        THEN <<>>
        ELSE Prefix("dcterms:", DCTERMS) \o Prefix("prez:", PREZ) \o Prefix("rdf:", RDF)
             \o Prefix("rdfs:", RDFS) \o Prefix("xsd:", XSD) \o Prefix("skos:", SKOS)
             \o <<Kw("CONSTRUCT"), LBrace>>
             \o (IF outbound_children # <<>> \/ Truthy(parent_item.uri)
                 THEN <<uri, Var("outbound_children"), Var("item"), Dot,
                        Var("item"), Kw("prez:link"), Var("outbound_children_link"), Dot>>
                 ELSE <<>>)
             \o (IF outbound_parents # <<>> \/ Truthy(parent_item.uri)
                 THEN <<uri, Var("outbound_parents"), Var("item"), Dot,
                        Var("item"), Kw("prez:link"), Var("outbound_parents_link"), Dot>>
                 ELSE <<>>)
             \o (IF inbound_children # <<>>
                 THEN <<Var("inbound_child_s"), Var("inbound_child"), uri, Semi,
                        Kw("prez:link"), Var("inbound_children_link"), Dot>>
                 ELSE <<>>)
             \o (IF inbound_parents # <<>>
                 THEN <<Var("inbound_parent_s"), Var("inbound_parent"), uri, Semi,
                        Kw("prez:link"), Var("inbound_parent_link"), Dot>>
                 ELSE <<>>)
             \o <<Var("item"), Kw("rdfs:label"), Var("label"), Dot>>
             \o MemberListTemplate(parent_item)
             \o <<RBrace, Kw("WHERE"), LBrace>>
             \o generate_outbound_predicates(parent_item, outbound_children, outbound_parents)
             \o generate_inbound_predicates(parent_item, inbound_children, inbound_parents)
             \o GeneralClassPattern(parent_item)
             \o <<Var("item"), Kw("rdfs:label"), Punct("|"), Kw("dcterms:title"), Punct("|"),
                  Kw("skos:prefLabel"), Var("label"), Dot>>
             \o generate_id_listing_binds(parent_item, inbound_children, inbound_parents,
                                          outbound_children, outbound_parents)
             \o <<RBrace>>
             \o LimitOffset(page, per_page)

\* a count query whose class branch counts the members of the item's URI
generate_listing_count_construct_Mixed(item) ==
    LET subject == IF Truthy(item.uri) THEN Iri(item.uri[1]) ELSE Iri(item.general_class)
    IN  Prefix("prez:", PREZ)
        \o (IF Truthy(item.uri) THEN Prefix("rdfs:", RDFS) ELSE <<>>)
        \o <<Kw("CONSTRUCT"), LBrace, subject, Kw("prez:count"), Var("count"), RBrace,
             Kw("WHERE"), LBrace,
             Kw("SELECT"), LPar, Kw("COUNT"), LPar, Var("item"), RPar, Kw("as"), Var("count"),
             RPar, LBrace,
             Iri(FStr(item.uri)), Kw("rdfs:member"), Var("item"), Dot, RBrace, RBrace>>

\* generate_listing_count_construct(item): the members of item.uri when the
\* item has a URI, the instances of item.general_class otherwise
generate_listing_count_construct(item) ==
    IF Truthy(item.uri)
    THEN Prefix("prez:", PREZ) \o Prefix("rdfs:", RDFS)
         \o <<Kw("CONSTRUCT"), LBrace, Iri(FStr(item.uri)), Kw("prez:count"), Var("count"),
              RBrace, Kw("WHERE"), LBrace,
              Kw("SELECT"), LPar, Kw("COUNT"), LPar, Var("item"), RPar, Kw("as"), Var("count"),
              RPar, LBrace,
              Iri(FStr(item.uri)), Kw("rdfs:member"), Var("item"), Dot, RBrace, RBrace>>
    ELSE Prefix("prez:", PREZ)
         \o <<Kw("CONSTRUCT"), LBrace, Iri(item.general_class), Kw("prez:count"), Var("count"),
              RBrace, Kw("WHERE"), LBrace,
              Kw("SELECT"), LPar, Kw("COUNT"), LPar, Var("item"), RPar, Kw("as"), Var("count"),
              RPar, LBrace,
              Var("item"), Kw("a"), Iri(item.general_class), Dot, RBrace, RBrace>>

DefaultBNodeDepth == 2

\* profiles_graph_cache.value(profile, ALTREXT.hasBNodeDepth, None, default=2)
BNodeDepthOf(g, profile) ==
    LET v == GraphValue(g, profile, hasBNodeDepth, None)
    IN  IF v = None THEN DefaultBNodeDepth ELSE LiteralToInt(v[1])

\* the body of generate_item_construct(item, profile)
generate_item_construct(g, item, profile) ==
    LET object_uri == item.uri
        preds == get_item_predicates(g, profile, item.selected_class)
        bnode_depth == BNodeDepthOf(g, profile)
        seq == IF TruthyList(preds.sequence)
               THEN generate_sequence_construct(object_uri, preds.sequence) ELSE <<>>
    IN  Prefix("rdfs:", RDFS)
        \o <<Kw("CONSTRUCT"), LBrace,
          Iri(FStr(object_uri)), Var("p"), Var("o1"), Dot>>
        \o seq
        \o (IF TruthyList(preds.inverse)
            THEN <<Var("s"), Var("inbound_p"), Iri(FStr(object_uri)), Dot>> ELSE <<>>)
        \o generate_bnode_construct(bnode_depth)
        \o <<RBrace, Kw("WHERE"), LBrace, LBrace,
             Iri(FStr(object_uri)), Var("p"), Var("o1"), Dot>>
        \o seq
        \o (IF TruthyList(preds.inverse)
            THEN <<Var("s"), Var("inbound_p"), Iri(FStr(object_uri))>> ELSE <<>>)
        \o generate_include_predicates(preds.include)
        \o generate_inverse_predicates(preds.inverse)
        \o generate_bnode_select(bnode_depth)
        \o <<RBrace, RBrace>>

----------------------------------------------------------------------------
(* Profile and mediatype negotiation (sparql_new.py) *)

\* str(w) of a preference weight, held in tenths: 0.9 is "0.9", 1.0 is "1.0"
WeightStr(w) == IF w = 10 THEN "1.0" ELSE "0." \o ToString(w)

\* the pieces 'IF(?format="mediatype", "weight"' as a set: equal pieces collapse
MediatypeIfs(requested_mediatypes) ==
    {<<Kw("IF"), LPar, Var("format"), Punct("="), Str(requested_mediatypes[i][2]), Comma,
       Str(WeightStr(requested_mediatypes[i][1]))>> : i \in 1 .. Len(requested_mediatypes)}

\* the order in which the set of pieces is iterated: it is not determined by
\* the list, so either order of SetToSeq is taken
IterationOrder(set, flip) ==
    LET sq == SetToSeq(set)
    IN  IF flip THEN [i \in 1 .. Len(sq) |-> sq[Len(sq) + 1 - i]] ELSE sq

\* separator.join(parts) for token sequences
RECURSIVE JoinTokens(_, _)
JoinTokens(parts, separator) ==
    IF parts = <<>> THEN <<>>
    ELSE IF Len(parts) = 1 THEN parts[1]
    ELSE parts[1] \o separator \o JoinTokens(Tail(parts), separator)

\* generate_mediatype_if_statements(requested_mediatypes)
generate_mediatype_if_statements(requested_mediatypes, flip) ==
    <<Kw("BIND"), LPar>>
    \o JoinTokens(IterationOrder(MediatypeIfs(requested_mediatypes), flip), <<Comma>>)
    \o <<Comma, Str("")>>
    \o [i \in 1 .. Len(requested_mediatypes) |-> RPar]
    \o <<Kw("AS"), Var("req_format"), RPar>>

\* the general classes the endpoints deliver, as the query lists them
GeneralClasses ==
    <<"dcat:Dataset", "geo:FeatureCollection", "prez:FeatureCollectionList",
      "prez:FeatureList", "geo:Feature", "skos:ConceptScheme", "skos:Concept",
      "skos:Collection", "prez:DatasetList", "prez:VocPrezCollectionList",
      "prez:SchemesList", "prez:CatalogList", "dcat:Catalog", "dcat:Resource">>

\* DESC(?v)
Desc(v) == <<Kw("DESC"), LPar, Var(v), RPar>>

OrderKeys_DistanceFirst == <<"distance", "req_profile", "def_profile", "req_format", "def_format">>

\* the variables of the ORDER BY clause, in order
OrderKeys == <<"req_profile", "distance", "def_profile", "req_format", "def_format">>

\* select_profile_mediatype(classes, requested_profile, requested_mediatypes)
select_profile_mediatype(classes, requested_profile, requested_mediatypes, flip) ==
    Prefix("dcat:", DCAT) \o Prefix("sh:", "http://www.w3.org/ns/shacl#")
    \o Prefix("geo:", GEO) \o Prefix("rdfs:", RDFS)
    \o Prefix("altr-ext:", "http://www.w3.org/ns/dx/conneg/altr-ext#")
    \o Prefix("dcterms:", DCTERMS) \o Prefix("prez:", PREZ)
    \o <<Kw("SELECT"), Var("profile"), Var("class"),
         LPar, Kw("count"), LPar, Var("mid"), RPar, Kw("as"), Var("distance"), RPar,
         Var("req_profile"), Var("def_profile"), Var("format"), Var("req_format"),
         Var("def_format"),
         Kw("WHERE"), LBrace, Kw("VALUES"), Var("class"), LBrace>>
    \o [i \in 1 .. Len(classes) |-> Iri(classes[i])]
    \o <<RBrace,
         Var("class"), Kw("rdfs:subClassOf"), Punct("*"), Var("mid"), Dot,
         Var("mid"), Kw("rdfs:subClassOf"), Punct("*"), Var("general_class"), Dot,
         Kw("VALUES"), Var("general_class"), LBrace>>
    \o [i \in 1 .. Len(GeneralClasses) |-> Kw(GeneralClasses[i])]
    \o <<RBrace,
         Var("profile"), Kw("altr-ext:constrainsClass"), Var("class"), Semi,
         Kw("altr-ext:hasResourceFormat"), Var("format"), Dot>>
    \o (IF Truthy(requested_profile)
        THEN <<Kw("BIND"), LPar, Var("profile"), Punct("="), Iri(requested_profile[1]),
               Kw("as"), Var("req_profile"), RPar>>
        ELSE <<>>)
    \o <<Kw("BIND"), LPar, Kw("EXISTS"), LBrace,
         Var("shape"), Kw("sh:targetClass"), Var("class"), Semi,
         Kw("altr-ext:hasDefaultProfile"), Var("profile"), RBrace,
         Kw("AS"), Var("def_profile"), RPar>>
    \o (IF TruthyList(requested_mediatypes)
        THEN generate_mediatype_if_statements(requested_mediatypes[1], flip)
        ELSE <<>>)
    \o <<Kw("BIND"), LPar, Kw("EXISTS"), LBrace,
         Var("profile"), Kw("altr-ext:hasDefaultResourceFormat"), Var("format"), RBrace,
         Kw("AS"), Var("def_format"), RPar,
         RBrace,
         Kw("GROUP"), Kw("BY"), Var("class"), Var("profile"), Var("req_profile"),
         Var("def_profile"), Var("format"), Var("req_format"), Var("def_format"),
         Kw("ORDER"), Kw("BY")>>
    \o Concat([i \in 1 .. Len(OrderKeys) |-> Desc(OrderKeys[i])])
    \o <<Kw("LIMIT"), Num(1)>>

----------------------------------------------------------------------------
(* The SpacePrez service queries (spaceprez_service.py) *)

\* a fragment imported from prez.services.sparql_utils, spliced in whole
Fragment(name) == <<"fragment", name>>

\* the characters that end or bend a double-quoted SPARQL string
DoubleQuote == "\""
Backslash == "\\"
Newline == "\n"

\* a value cut at its special characters: each special character is a piece
\* of its own, the text between two of them is one piece; a value without
\* special characters is one piece
Pieces(s) ==
    IF s = "d\"1" THEN <<"d", DoubleQuote, "1">>
    ELSE IF s = "d\\" THEN <<"d", Backslash>>
    ELSE IF s = "d\n1" THEN <<"d", Newline, "1">>
    ELSE IF s = "d\" ; a ?o . ?s a \"1"
    THEN <<"d", DoubleQuote, " ; a ?o . ?s a ", DoubleQuote, "1">>
    ELSE <<s>>

\* text outside any string literal, and a string literal that never closes
Raw(s) == <<"raw", s>>
Unterminated(s) == <<"unterminated", s>>

\* the tokens a SPARQL scanner reads from pieces: a double quote opens or
\* closes a string, a backslash inside a string takes the next piece with it
\* (so an escaped quote does not close), a line break inside a string leaves
\* it unterminated, and text outside strings is read as query text
RECURSIVE Scan(_, _, _)
Scan(pieces, open, acc) ==
    IF pieces = <<>> THEN (IF open THEN <<Unterminated(acc)>> ELSE <<>>)
    ELSE LET c == Head(pieces)
             rest == Tail(pieces)
         IN  IF open
             THEN (IF c = DoubleQuote THEN <<Str(acc)>> \o Scan(rest, FALSE, "")
                   ELSE IF c = Newline THEN <<Unterminated(acc)>> \o Scan(rest, FALSE, "")
                   ELSE IF c = Backslash
                   THEN (IF rest = <<>> THEN <<Unterminated(acc \o c)>>
                         ELSE Scan(Tail(rest), TRUE, acc \o c \o Head(rest)))
                   ELSE Scan(rest, TRUE, acc \o c))
             ELSE (IF c = DoubleQuote THEN Scan(rest, TRUE, "")
                   ELSE IF c = Newline THEN Scan(rest, FALSE, "")
                   ELSE <<Raw(c)>> \o Scan(rest, FALSE, ""))

\* "{o}": a user-supplied value put between double quotes as it comes, with
\* no escaping, as the query text reads afterwards
Quoted(o) == Scan(<<DoubleQuote>> \o Pieces(FStr(o)) \o <<DoubleQuote>>, FALSE, "")

\* lang(?v) = "l"
LangIs(v, l) == <<Kw("lang"), LPar, Var(v), RPar, Punct("="), Str(l)>>

\* FILTER ({STR(?v) = "id" && }DATATYPE(?v) = xsd:token)
IdFilter(v, id) ==
    <<Kw("FILTER"), LPar>>
    \o (IF id # None
        THEN <<Kw("STR"), LPar, Var(v), RPar, Punct("=")>> \o Quoted(id) \o <<Punct("&&")>>
        ELSE <<>>)
    \o <<Kw("DATATYPE"), LPar, Var(v), RPar, Punct("="), Kw("xsd:token"), RPar>>

\* OPTIONAL { ?s dcterms:description ?desc . }
OptionalDescription(subject) ==
    <<Kw("OPTIONAL"), LBrace, Var(subject), Kw("dcterms:description"), Var("desc"), Dot, RBrace>>

\* the query of list_datasets(page, per_page)
list_datasets_query(page, per_page) ==
    Prefix("dcat:", DCAT) \o Prefix("dcterms:", DCTERMS) \o Prefix("rdfs:", RDFS)
    \o Prefix("skos:", SKOS) \o Prefix("xsd:", XSD)
    \o <<Kw("SELECT"), Kw("DISTINCT"), Var("d"), Var("id"), Var("label"), Kw("WHERE"), LBrace,
         Var("d"), Kw("a"), Kw("dcat:Dataset"), Semi,
         Kw("dcterms:identifier"), Var("id"), Semi,
         Kw("dcterms:title"), Var("label"), Dot>>
    \o OptionalDescription("d")
    \o <<Kw("FILTER"), LPar, LPar>>
    \o LangIs("label", "") \o <<Punct("||")>> \o LangIs("label", "en") \o <<Punct("||")>>
    \o LangIs("label", "en-AU")
    \o <<RPar, Punct("&&"), Kw("DATATYPE"), LPar, Var("id"), RPar, Punct("="), Kw("xsd:token"),
         RPar, RBrace>>
    \o LimitOffset(page, per_page)

\* the query of list_collections(dataset_id, page, per_page)
list_collections_query(dataset_id, page, per_page) ==
    Prefix("dcat:", DCAT) \o Prefix("dcterms:", DCTERMS) \o Prefix("geo:", GEO)
    \o Prefix("rdfs:", RDFS) \o Prefix("skos:", SKOS) \o Prefix("xsd:", XSD)
    \o <<Kw("SELECT"), Kw("DISTINCT"), Punct("*"), Kw("WHERE"), LBrace,
         Var("d"), Kw("dcterms:identifier"), Var("d_id"), Semi,
         Kw("a"), Kw("dcat:Dataset"), Semi,
         Kw("dcterms:title"), Var("d_label"), Semi,
         Kw("rdfs:member"), Var("coll"), Dot,
         Kw("FILTER"), LPar>>
    \o LangIs("d_label", "") \o <<Punct("||")>> \o LangIs("d_label", "en") \o <<Punct("||")>>
    \o LangIs("label", "en-AU") \o <<RPar>>
    \o IdFilter("d_id", dataset_id)
    \o <<Var("coll"), Kw("a"), Kw("geo:FeatureCollection"), Semi,
         Kw("dcterms:identifier"), Var("id"), Semi,
         Kw("dcterms:title"), Var("label"), Dot>>
    \o OptionalDescription("coll")
    \o <<Kw("FILTER"), LPar>>
    \o LangIs("label", "") \o <<Punct("||")>> \o LangIs("label", "en") \o <<Punct("||")>>
    \o LangIs("label", "en-AU") \o <<RPar>>
    \o FilterToken("id")
    \o <<RBrace>>
    \o LimitOffset(page, per_page)

\* the query of list_features(dataset_id, collection_id, cql_query, page, per_page)
list_features_query(dataset_id, collection_id, cql_query, page, per_page) ==
    Prefix("dcat:", DCAT) \o Prefix("dcterms:", DCTERMS) \o Prefix("geo:", GEO)
    \o Prefix("rdfs:", RDFS) \o Prefix("skos:", SKOS) \o Prefix("xsd:", XSD)
    \o <<Kw("SELECT"), Kw("DISTINCT"), Punct("*"), Kw("WHERE"), LBrace,
         Var("d"), Kw("dcterms:identifier"), Var("d_id"), Semi,
         Kw("a"), Kw("dcat:Dataset"), Semi,
         Kw("dcterms:title"), Var("d_label"), Semi,
         Kw("rdfs:member"), Var("coll"), Dot,
         Kw("FILTER"), LPar>>
    \o LangIs("d_label", "") \o <<Punct("||")>> \o LangIs("d_label", "en") \o <<RPar>>
    \o IdFilter("d_id", dataset_id)
    \o <<Var("coll"), Kw("a"), Kw("geo:FeatureCollection"), Semi,
         Kw("dcterms:identifier"), Var("coll_id"), Semi,
         Kw("dcterms:title"), Var("coll_label"), Semi,
         Kw("rdfs:member"), Var("f"), Dot,
         Kw("FILTER"), LPar>>
    \o LangIs("coll_label", "") \o <<Punct("||")>> \o LangIs("coll_label", "en") \o <<RPar>>
    \o IdFilter("coll_id", collection_id)
    \o <<Var("f"), Kw("a"), Kw("geo:Feature"), Semi, Kw("dcterms:identifier"), Var("id"), Dot>>
    \o FilterToken("id")
    \o OptionalDescription("f")
    \o <<Kw("OPTIONAL"), LBrace, Var("f"), Kw("dcterms:title"), Var("label"), Dot,
         Kw("FILTER"), LPar>>
    \o LangIs("label", "") \o <<Punct("||")>> \o LangIs("label", "en") \o <<Punct("||")>>
    \o LangIs("label", "en-AU") \o <<RPar, RBrace>>
    \o (IF cql_query # None THEN cql_query[1] ELSE <<>>)
    \o <<RBrace>>
    \o LimitOffset(page, per_page)

\* the query of cql_search(params, page, per_page, collection_id); page and
\* per_page are ints here
cql_search_query(bbox, page, per_page) ==
    Prefix("dcat:", DCAT) \o Prefix("dcterms:", DCTERMS) \o Prefix("geo:", GEO)
    \o Prefix("rdfs:", RDFS) \o Prefix("skos:", SKOS) \o Prefix("xsd:", XSD)
    \o <<Kw("SELECT"), Kw("DISTINCT"), Punct("*"), Kw("WHERE"), LBrace>>
    \o (IF bbox # None
        THEN <<Kw("FILTER"), LPar, Kw("geo:sfIntersects"), LPar, Var("geom"), Comma,
               Str("POLYGON(())"), Punct("^^"), Kw("geo:wktLiteral"), RPar, RPar>>
        ELSE <<>>)
    \o <<RBrace, Kw("LIMIT"), Num(per_page), Kw("OFFSET"), Num((page - 1) * per_page)>>

\* the fragments of sparql_utils that every item construct splices in
ConstructInfo ==
    <<Fragment("construct_all_prop_obj_info"), Fragment("construct_all_bnode_prop_obj_info")>>
WhereInfo == <<Fragment("get_all_bnode_prop_obj_info"), Fragment("get_all_prop_obj_info")>>

\* the query of get_dataset_construct(dataset_id, dataset_uri)
get_dataset_construct_query(dataset_id, dataset_uri) ==
    LET query_by_id ==
            <<Var("d"), Kw("dcterms:identifier")>> \o Quoted(dataset_id)
            \o <<Punct("^^"), Kw("xsd:token"), Semi, Kw("a"), Kw("dcat:Dataset"), Dot,
                 Kw("BIND"), LPar>> \o Quoted(dataset_id) \o <<Kw("AS"), Var("id"), RPar>>
        query_by_uri ==
            <<Kw("BIND"), LPar, Iri(FStr(dataset_uri)), Kw("as"), Var("d"), RPar,
              Var("d"), Kw("a"), Kw("dcat:Dataset"), Dot>>
        body ==
            <<Var("d"), Var("p1"), Var("o1"), Semi, Kw("rdfs:member"), Var("coll"), Dot,
              Var("coll"), Kw("dcterms:identifier"), Var("coll_id"), Semi,
              Kw("dcterms:title"), Var("coll_title"), Dot>>
    IN  Prefix("dcat:", DCAT) \o Prefix("dcterms:", DCTERMS) \o Prefix("rdfs:", RDFS)
        \o Prefix("xsd:", XSD)
        \o <<Kw("CONSTRUCT"), LBrace>> \o body \o ConstructInfo
        \o <<RBrace, Kw("WHERE"), LBrace>>
        \o (IF dataset_id # None THEN query_by_id ELSE query_by_uri)
        \o body \o WhereInfo \o <<RBrace>>

\* query_by_uri of the collection constructs
CollectionByUri(collection_uri) ==
    <<Kw("BIND"), LPar, Iri(FStr(collection_uri)), Kw("as"), Var("coll"), RPar,
      Var("coll"), Kw("a"), Kw("geo:FeatureCollection"), Dot>>

\* FILTER (STR(?v) = "id")
StrIs(v, id) ==
    <<Kw("FILTER"), LPar, Kw("STR"), LPar, Var(v), RPar, Punct("=")>> \o Quoted(id) \o <<RPar>>

\* the query of get_collection_construct_1(dataset_id, collection_id, collection_uri)
get_collection_construct_1_query(dataset_id, collection_id, collection_uri) ==
    LET query_by_id ==
            StrIs("d_id", dataset_id)
            \o <<Var("coll"), Kw("a"), Kw("geo:FeatureCollection"), Semi,
                 Kw("dcterms:identifier"), Var("id"), Dot,
                 Var("d"), Kw("a"), Kw("dcat:Dataset"), Semi,
                 Kw("rdfs:member"), Var("fc"), Semi,
                 Kw("dcterms:identifier"), Var("d_id"), Dot>>
            \o StrIs("id", collection_id)
    IN  Prefix("dcat:", DCAT) \o Prefix("dcterms:", DCTERMS) \o Prefix("geo:", GEO)
        \o Prefix("rdfs:", RDFS) \o Prefix("skos:", SKOS) \o Prefix("xsd:", XSD)
        \o <<Kw("CONSTRUCT"), LBrace, Var("coll"), Var("p1"), Var("o1"), Dot>>
        \o ConstructInfo
        \o <<Var("d"), Kw("a"), Kw("dcat:Dataset"), Semi,
             Kw("dcterms:identifier"), Var("d_id"), Semi,
             Kw("dcterms:title"), Var("d_label"), Semi,
             Kw("rdfs:member"), Var("coll"), Dot,
             RBrace, Kw("WHERE"), LBrace>>
        \o (IF collection_id # None THEN query_by_id ELSE CollectionByUri(collection_uri))
        \o <<Var("coll"), Var("p1"), Var("o1"), Dot,
             Kw("FILTER"), LPar, Punct("!"), Kw("STRENDS"), LPar, Kw("STR"), LPar, Var("p1"),
             RPar, Comma, Str("member"), RPar, RPar,
             Var("d"), Kw("a"), Kw("dcat:Dataset"), Semi,
             Kw("rdfs:member"), Var("fc"), Semi,
             Kw("dcterms:identifier"), Var("d_id"), Semi,
             Kw("dcterms:title"), Var("d_label"), Dot>>
        \o FilterToken("d_id")
        \o WhereInfo \o <<RBrace>>

\* the query of get_collection_construct_2(dataset_id, collection_id, collection_uri)
get_collection_construct_2_query(dataset_id, collection_id, collection_uri) ==
    LET query_by_id ==
            StrIs("d_id", dataset_id)
            \o <<Var("coll"), Kw("a"), Kw("geo:FeatureCollection"), Semi,
                 Kw("dcterms:identifier"), Var("id"), Dot,
                 Var("d"), Kw("a"), Kw("dcat:Dataset"), Semi,
                 Kw("dcterms:identifier"), Var("d_id"), Semi,
                 Kw("rdfs:member"), Var("fc"), Dot>>
            \o StrIs("id", collection_id)
    IN  Prefix("dcat:", DCAT) \o Prefix("dcterms:", DCTERMS) \o Prefix("geo:", GEO)
        \o Prefix("rdfs:", RDFS) \o Prefix("skos:", SKOS)
        \o <<Kw("CONSTRUCT"), LBrace, Var("coll"), Kw("rdfs:member"), Var("mem"), Dot,
             RBrace, Kw("WHERE"), LBrace>>
        \o (IF collection_id # None THEN query_by_id ELSE CollectionByUri(collection_uri))
        \o <<Var("coll"), Kw("rdfs:member"), Var("mem"), Dot, RBrace, Kw("LIMIT"), Num(20)>>

\* the query of count_features(dataset_id, collection_id, cql_query)
count_features_query(dataset_id, collection_id, cql_query) ==
    Prefix("dcat:", DCAT) \o Prefix("dcterms:", DCTERMS) \o Prefix("geo:", GEO)
    \o Prefix("rdfs:", RDFS) \o Prefix("xsd:", XSD)
    \o <<Kw("SELECT"), LPar, Kw("COUNT"), LPar, Var("f"), RPar, Kw("as"), Var("count"), RPar,
         Kw("WHERE"), LBrace,
         Var("d"), Kw("dcterms:identifier"), Var("d_id"), Semi,
         Kw("a"), Kw("dcat:Dataset"), Semi,
         Kw("rdfs:member"), Var("coll"), Dot>>
    \o IdFilter("d_id", dataset_id)
    \o <<Var("coll"), Kw("dcterms:identifier"), Var("coll_id"), Semi,
         Kw("a"), Kw("geo:FeatureCollection"), Semi,
         Kw("rdfs:member"), Var("f"), Dot>>
    \o IdFilter("coll_id", collection_id)
    \o <<Var("f"), Kw("a"), Kw("geo:Feature"), Dot>>
    \o (IF TruthyList(cql_query) THEN cql_query[1] ELSE <<>>)
    \o <<RBrace>>

\* the query of get_uri(item_id, klass)
get_uri_query(item_id, klass) ==
    Prefix("dcterms:", DCTERMS) \o Prefix("rdf:", RDF) \o Prefix("xsd:", XSD)
    \o <<Kw("SELECT"), Var("item_uri"), Var("class"), LBrace,
         Var("item_uri"), Kw("dcterms:identifier")>> \o Quoted(item_id)
    \o <<Punct("^^"), Kw("xsd:token"), Semi, Kw("rdf:type"), Iri(FStr(klass)), Dot, RBrace>>

\* OPTIONAL { ?v dcterms:identifier "id"^^xsd:token ; a <class> ... }
OptionalById(v, id, rest) ==
    <<Kw("OPTIONAL"), LBrace, Var(v), Kw("dcterms:identifier")>> \o Quoted(id)
    \o <<Punct("^^"), Kw("xsd:token"), Semi>> \o rest \o <<RBrace>>

\* the first query of get_object_uri_and_classes, by identifiers
get_object_uri_and_classes_query_by_id(feature_id, collection_id, dataset_id) ==
    Prefix("dcat:", DCAT) \o Prefix("dcterms:", DCTERMS) \o Prefix("geo:", GEO)
    \o Prefix("rdfs:", RDFS) \o Prefix("xsd:", XSD)
    \o <<Kw("SELECT"), Var("f"), Var("fc"), Var("d"), Var("class"), LBrace>>
    \o OptionalById("d", dataset_id, <<Kw("a"), Kw("dcat:Dataset"), Dot>>)
    \o OptionalById("fc", collection_id,
                    <<Kw("a"), Kw("geo:FeatureCollection"), Dot,
                      Var("d"), Kw("rdfs:member"), Var("fc"), Dot>>)
    \o OptionalById("f", feature_id,
                    <<Kw("a"), Kw("geo:Feature"), Semi, Kw("a"), Var("class"), Dot,
                      Var("fc"), Kw("rdfs:member"), Var("f"), Dot>>)
    \o <<RBrace>>

\* BIND(<uri> AS ?v)
BindUri(uri, v) == <<Kw("BIND"), LPar, Iri(FStr(uri)), Kw("AS"), Var(v), RPar>>

\* the second query of get_object_uri_and_classes, by URIs (it declares no
\* prefix)
get_object_uri_and_classes_query_by_uri(feature_uri, collection_uri, dataset_uri) ==
    <<Kw("SELECT"), Var("f"), Var("fc"), Var("d"), Var("class"), LBrace>>
    \o BindUri(feature_uri, "f") \o BindUri(collection_uri, "fc") \o BindUri(dataset_uri, "d")
    \o <<Var("f"), Kw("a"), Var("class"), Semi,
         Kw("rdfs:member"), Punct("^"), Var("fc"), Semi,
         Kw("dcterms:identifier"), Var("f_id"), Punct("^^"), Kw("xsd:token"), Dot,
         Var("fc"), Kw("a"), Kw("geo:FeatureCollection"), Semi,
         Kw("rdfs:member"), Punct("^"), Var("d"), Semi,
         Kw("dcterms:identifier"), Var("fc_id"), Punct("^^"), Kw("xsd:token"), Dot,
         Var("d"), Kw("a"), Kw("dcat:Dataset"), Semi,
         Kw("dcterms:identifier"), Var("d_id"), Punct("^^"), Kw("xsd:token"), Dot,
         RBrace>>

\* the query of get_feature_construct(feature_uri)
get_feature_construct_query(feature_uri) ==
    LET coll == <<Var("coll"), Kw("a"), Kw("geo:FeatureCollection"), Semi,
                  Kw("dcterms:identifier"), Var("coll_id"), Semi,
                  Kw("dcterms:title"), Var("coll_label"), Semi,
                  Kw("rdfs:member"), Var("f"), Dot>>
        d == <<Var("d"), Kw("a"), Kw("dcat:Dataset"), Semi,
               Kw("dcterms:identifier"), Var("d_id"), Semi,
               Kw("dcterms:title"), Var("d_label")>>
    IN  Prefix("dcat:", DCAT) \o Prefix("dcterms:", DCTERMS) \o Prefix("geo:", GEO)
        \o Prefix("rdfs:", RDFS) \o Prefix("skos:", SKOS) \o Prefix("xsd:", XSD)
        \o <<Kw("CONSTRUCT"), LBrace,
             Var("f"), Var("p1"), Var("o1"), Semi, Kw("dcterms:title"), Var("title"), Dot>>
        \o ConstructInfo
        \o <<Kw("dcterms:title"), Kw("rdfs:label"), Str("Title"), Dot>>
        \o coll \o d \o <<Dot, RBrace, Kw("WHERE"), LBrace>>
        \o <<Kw("BIND"), LPar, Iri(FStr(feature_uri)), Kw("as"), Var("f"), RPar,
             Var("f"), Kw("a"), Kw("geo:Feature"), Semi, Var("p1"), Var("o1"), Dot>>
        \o coll \o d \o <<Semi, Kw("rdfs:member"), Var("coll"), Dot>>
        \o WhereInfo
        \o <<Kw("OPTIONAL"), LBrace, Var("f"), Kw("dcterms:title"), Var("given_title"), Dot,
             RBrace,
             Kw("OPTIONAL"), LBrace, Var("f"), Kw("rdfs:label"), Var("given_label"), Dot,
             RBrace,
             Kw("BIND"), LPar, Kw("COALESCE"), LPar, Kw("COALESCE"), LPar, Var("given_label"),
             Comma, Var("given_title"), RPar, Comma, Kw("CONCAT"), LPar, Str("Feature "), Comma,
             Var("id"), RPar, RPar, Kw("AS"), Var("title"), RPar, RBrace>>

----------------------------------------------------------------------------
(* The full-text search query (query_generation/search_fuseki_fts.py).  A   *)
(* string that the code takes apart is the sequence of its characters.     *)

\* s.split(sep), sep one character: the pieces between the separators, the
\* empty pieces included
RECURSIVE Split(_, _)
Split(s, sep) ==
    IF \A i \in 1 .. Len(s) : s[i] # sep
    THEN <<s>>
    ELSE LET i == CHOOSE k \in 1 .. Len(s) : s[k] = sep /\ \A j \in 1 .. k - 1 : s[j] # sep
         IN  <<SubSeq(s, 1, i - 1)>> \o Split(SubSeq(s, i + 1, Len(s)), sep)

\* sep.join(parts)
RECURSIVE Join(_, _)
Join(parts, sep) ==
    IF parts = <<>> THEN <<>>
    ELSE IF Len(parts) = 1 THEN parts[1]
    ELSE parts[1] \o <<sep>> \o Join(Tail(parts), sep)

\* term = "+".join(term.split(" "))
JoinedTerm(term) == Join(Split(term, " "), "+")

InnerLimit_Unadjusted(limit) == limit

\* limit += 1
InnerLimit(limit) == limit + 1

sr_uri == Var("focus_node")
weight == Var("weight")
match == Var("match")
graph_g == Var("g")
pred == Var("pred")
hashid == Var("hashID")

\* the namespace of prez.reference_data.prez_ns.PREZ
PREZ_NS == "https://prez.dev/"

\* TEXT.query
text_query == Iri("http://jena.apache.org/text#query")

\* ct_map, in insertion order: the predicate and object of each result triple
ct_map ==
    <<(<<Iri(PREZ_NS \o "searchResultWeight"), weight>>),
      (<<Iri(PREZ_NS \o "searchResultPredicate"), pred>>),
      (<<Iri(PREZ_NS \o "searchResultMatch"), match>>),
      (<<Iri(PREZ_NS \o "searchResultURI"), sr_uri>>),
      (<<Iri(RDF \o "type"), Iri(PREZ_NS \o "SearchResult")>>)>>

\* construct_tss_list: the result triples, then the caller's tss_list if truthy
construct_tss_list(tss_list) ==
    [i \in 1 .. Len(ct_map) |-> <<hashid, ct_map[i][1], ct_map[i][2]>>]
    \o (IF TruthyList(tss_list) THEN tss_list[1] ELSE <<>>)

\* _generate_fts_triples_block(preds, sr_uri):
\* (?node ?weight ?match ?g ?pred) text:query (<preds> ... "term")
generate_fts_triples_block(preds, node, term) ==
    [subject |-> <<node, weight, match, graph_g, pred>>,
     verb |-> text_query,
     predicates |-> [i \in 1 .. Len(preds) |-> Iri(preds[i])],
     literal |-> term,
     triples_block |-> <<>>]

ggp_list_DirectUnlessAbsent(term, non_shacl_predicates, shacl_tssp_preds) ==
    (IF non_shacl_predicates # None
     THEN <<generate_fts_triples_block(non_shacl_predicates[1], sr_uri, term)>>
     ELSE <<>>)
    \o [i \in 1 .. Len(shacl_tssp_preds) |->
            [generate_fts_triples_block(shacl_tssp_preds[i][2], Var("fts_search_node"), term)
                EXCEPT !.triples_block = shacl_tssp_preds[i][1]]]

\* ggp_list: one group for the direct predicates if there are any, then one
\* per (tssp_list, preds) pair
ggp_list(term, non_shacl_predicates, shacl_tssp_preds) ==
    (IF TruthyList(non_shacl_predicates)
     THEN <<generate_fts_triples_block(non_shacl_predicates[1], sr_uri, term)>>
     ELSE <<>>)
    \o [i \in 1 .. Len(shacl_tssp_preds) |->
            [generate_fts_triples_block(shacl_tssp_preds[i][2], Var("fts_search_node"), term)
                EXCEPT !.triples_block = shacl_tssp_preds[i][1]]]

\* BuiltInCall.create_with_one_expr(name, expr)
BuiltInCall1(name, expr) == <<Kw(name), LPar>> \o expr \o <<RPar>>

\* BuiltInCall.create_with_n_expr(name, exprs)
BuiltInCallN(name, exprs) == <<Kw(name), LPar>> \o Join(exprs, Comma) \o <<RPar>>

HashArguments_Reordered == <<sr_uri, match, pred, weight>>

\* the variables hashed into the result identifier, in the order of the source
HashArguments == <<sr_uri, pred, match, weight>>

\* URI(CONCAT("urn:hash:", SHA256(CONCAT(STR(e) for e in HashArguments))))
HashExpression ==
    BuiltInCall1("URI",
        BuiltInCallN("CONCAT",
            <<(<<Str("urn:hash:")>>),
              BuiltInCall1("SHA256",
                  BuiltInCallN("CONCAT",
                      [i \in 1 .. Len(HashArguments) |->
                           BuiltInCall1("STR", <<HashArguments[i]>>)]))>>))

\* SolutionModifier(): no ordering, no limit, no offset
SolutionModifier == [order_by |-> <<>>, limit |-> None, offset |-> None]

\* SearchQueryFusekiFTS(term, limit, offset, non_shacl_predicates,
\* shacl_tssp_preds, tss_list), for a shacl_tssp_preds that can be iterated
SearchQueryFusekiFTS(term, limit, offset, non_shacl_predicates, shacl_tssp_preds, tss_list) ==
    [construct_template |-> construct_tss_list(tss_list),
     where_clause |->
         [select_clause |-> [variables |-> <<sr_uri, pred, match, weight>>,
                             expression |-> HashExpression,
                             alias |-> hashid],
          where_clause |->
              <<[group_or_union |->
                     ggp_list(JoinedTerm(term), non_shacl_predicates, shacl_tssp_preds)]>>,
          solution_modifier |->
              [order_by |-> <<[var |-> weight, direction |-> "DESC"]>>,
               limit |-> Some(InnerLimit(limit)),
               offset |-> Some(offset)]],
     solution_modifier |-> SolutionModifier]

----------------------------------------------------------------------------
(* Memoization: functools.lru_cache / async_lru.alru_cache.  A cache is the *)
(* sequence of its <<key, value>> entries, least recently used first.       *)

ItemConstructMaxsize == 128
CountFeaturesMaxsize == 20
ListFeaturesMaxsize == 20
ObjectUriMaxsize == 50
FeatureConstructMaxsize == 20

CacheNames == {"generate_item_construct", "count_features", "list_features",
               "get_object_uri_and_classes", "get_feature_construct"}

\* the position of key in cache c, 0 on a miss
LruFind(c, key) ==
    IF \E i \in 1 .. Len(c) : c[i][1] = key
    THEN CHOOSE i \in 1 .. Len(c) : c[i][1] = key
    ELSE 0

\* a hit on entry i makes it the most recently used
LruTouch(c, i) == SubSeq(c, 1, i - 1) \o SubSeq(c, i + 1, Len(c)) \o <<c[i]>>

\* a store that makes room by dropping the entry used last
LruStore_EvictNewest(c, maxsize, key, value) ==
    IF maxsize = 0 THEN c
    ELSE IF Len(c) >= maxsize THEN SubSeq(c, 1, Len(c) - 1) \o <<(<<key, value>>)>>
    ELSE c \o <<(<<key, value>>)>>

\* a miss stores the computed value, evicting the least recently used entry
\* of a full cache
LruStore(c, maxsize, key, value) ==
    IF maxsize = 0 THEN c
    ELSE IF Len(c) >= maxsize THEN Tail(c) \o <<(<<key, value>>)>>
    ELSE c \o <<(<<key, value>>)>>

\* a store after the computation that never looks for the key again
LruStoreIfAbsent_Always(c, maxsize, key, value) == LruStore(c, maxsize, key, value)

\* the store of lru_cache after the decorated function has run outside the
\* lock: a key that another caller has stored meanwhile is left as it is
LruStoreIfAbsent(c, maxsize, key, value) ==
    IF LruFind(c, key) # 0 THEN c ELSE LruStore(c, maxsize, key, value)

\* the value of an alru_cache entry whose future is not resolved yet
Pending == <<>>

\* the resolution of the future of key: an entry evicted meanwhile stays out
AlruResolve(c, key, value) ==
    [i \in 1 .. Len(c) |-> IF c[i][1] = key THEN <<key, value>> ELSE c[i]]

----------------------------------------------------------------------------
(* Bounds and the inputs drawn from them *)

NumTasks == 2       \* concurrent callers of the memoized functions

MaxDepth == 3       \* blank-node depths 0 .. MaxDepth
MaxPreds == 2       \* predicates per include / inverse set
MaxChainLen == 3    \* predicates per sequence path
MaxChains == 2      \* sequence paths per call of generate_sequence_construct
MaxPage == 3        \* page numbers 0 .. MaxPage
MaxTermLen == 3     \* characters per search term
MaxLimit == 3       \* search limits 0 .. MaxLimit
MaxOffset == 2      \* search offsets 0 .. MaxOffset
MaxRequests == 3    \* calls in a row served by one process

ProfileP == "prof:P"    \* a profile with node shapes
ProfileQ == "prof:Q"    \* a profile with no node shape
Profiles == {ProfileP, ProfileQ}

ClassA == "cls:A"       \* targeted by shapes _:sh1 and _:sh3 of ProfileP
ClassB == "cls:B"       \* targeted by shape _:sh2 of ProfileP
ClassC == "cls:C"       \* targeted by no shape
Classes == {ClassA, ClassB, ClassC}

Uris == {None, Some("urn:item:1")}

\* item descriptors (prez.models): uri, selected_class, general_class, link_constructor
Items == [uri : Uris, selected_class : Classes,
          general_class : {"cls:General"}, link_constructor : {"/s/items"}]

\* the items whose listings are counted: with a URI, with an empty one, with
\* none, of several general classes and endpoints
CountedItems ==
    [uri : {None, Some(""), Some("urn:item:1"), Some("urn:item:2")},
     selected_class : Classes,
     general_class : {"cls:General", "geo:Feature", "skos:Concept"},
     link_constructor : {"/s/items", "/v/vocab", "/c/catalogs"}]

\* the first n predicates of a family: <base>1 .. <base>n
PredsUpTo(base, n) == {base \o ToString(i) : i \in 1 .. n}

SeqPreds == {"ex:s1", "ex:s2"}

\* sequence paths: non-empty predicate lists of at most MaxChainLen predicates
Chains == UNION {[1 .. n -> SeqPreds] : n \in 1 .. MaxChainLen}

\* lists of at most MaxChains sequence paths
ChainLists == UNION {[1 .. n -> Chains] : n \in 0 .. MaxChains}

\* the node of cell i of the RDF list of sequence path k
ListNode(k, i) == "_:l" \o ToString(k) \o "_" \o ToString(i)

\* the triples of the RDF list that holds sequence path k
RdfList(k, chain) ==
    UNION {{<<ListNode(k, i), rdfFirst, chain[i]>>,
            <<ListNode(k, i), rdfRest, IF i < Len(chain) THEN ListNode(k, i + 1) ELSE rdfNil>>}
           : i \in 1 .. Len(chain)}

\* A profile graph.  ProfileP has three shapes: _:sh1 (targets ClassA: include
\* and sequence paths, inbound listing predicates), _:sh3 (targets ClassA:
\* inverse paths, outbound listing predicates) and _:sh2 (targets ClassB).
\* ProfileQ has none.
MkGraph(cfg) ==
    {<<ProfileP, hasNodeShape, "_:sh1">>, <<ProfileP, hasNodeShape, "_:sh2">>,
     <<ProfileP, hasNodeShape, "_:sh3">>,
     <<"_:sh1", targetClass, ClassA>>, <<"_:sh3", targetClass, ClassA>>,
     <<"_:sh2", targetClass, ClassB>>,
     <<"_:sh2", shPath, "ex:b_p">>, <<"_:sh2", shInversePath, "ex:b_q">>,
     <<"_:sh2", inboundChildren, "ex:b_ic">>, <<"_:sh2", outboundParents, "ex:b_op">>}
    \cup {<<"_:sh1", shPath, p>> : p \in cfg.inc}
    \cup {<<"_:sh3", shInversePath, p>> : p \in cfg.inv}
    \cup {<<"_:sh1", inboundChildren, p>> : p \in cfg.ic}
    \cup {<<"_:sh1", inboundParents, p>> : p \in cfg.ip}
    \cup {<<"_:sh3", outboundChildren, p>> : p \in cfg.oc}
    \cup {<<"_:sh3", outboundParents, p>> : p \in cfg.op}
    \cup {<<"_:sh1", shSequencePath, ListNode(k, 1)>> : k \in 1 .. Len(cfg.seq)}
    \cup UNION {RdfList(k, cfg.seq[k]) : k \in 1 .. Len(cfg.seq)}
    \cup (IF cfg.depth = None THEN {}
          ELSE {<<ProfileP, hasBNodeDepth, ToString(cfg.depth[1])>>})

Depths == {None} \cup {Some(d) : d \in 0 .. MaxDepth}

\* the sequence-path lists the item graphs declare: at most one path, or the
\* two paths (s1 s2) and (s2)
GraphChainLists ==
    {<<>>} \cup {<<c>> : c \in Chains} \cup {<<(<<"ex:s1", "ex:s2">>), (<<"ex:s2">>)>>}

\* graphs that vary what the item resolution reads
ItemGraphs ==
    {MkGraph([inc |-> PredsUpTo("ex:p", ni), inv |-> PredsUpTo("ex:q", nv),
              seq |-> sq, depth |-> d, ic |-> {}, ip |-> {}, oc |-> {}, op |-> {}])
     : ni \in 0 .. MaxPreds, nv \in 0 .. MaxPreds, sq \in GraphChainLists, d \in Depths}

\* graphs that vary what the listing resolution reads: each of the four sets
\* empty or not
ListingGraphs ==
    {MkGraph([inc |-> {"ex:p1"}, inv |-> {}, seq |-> <<>>, depth |-> None,
              ic |-> PredsUpTo("ex:ic", a), ip |-> PredsUpTo("ex:ip", b),
              oc |-> PredsUpTo("ex:oc", 2 * c), op |-> PredsUpTo("ex:op", d)])
     : a \in 0 .. 1, b \in 0 .. 1, c \in 0 .. 1, d \in 0 .. 1}

\* the graph of the specifications that do not read it
SampleGraph ==
    MkGraph([inc |-> {"ex:p1"}, inv |-> {"ex:q1"}, seq |-> <<(<<"ex:s1", "ex:s2">>)>>,
             depth |-> None, ic |-> {}, ip |-> {}, oc |-> {"ex:oc1"}, op |-> {}])

\* pagination windows: each of page and per_page absent or present
Pages == {None} \cup {Some(n) : n \in 0 .. MaxPage}
PerPages == {None} \cup {Some(n) : n \in {0, 1, 10, 20}}

\* identifiers and URIs of datasets and collections, as the routes pass them
DatasetIds == {None, Some("ds1")}
CollectionIds == {None, Some("fc1")}

\* identifiers as a client may send them: with a double quote, a trailing
\* backslash, a line break, or a quote that closes the literal followed by
\* patterns of the client's own
HostileIds == {Some("d\"1"), Some("d\\"), Some("d\n1"), Some("d\" ; a ?o . ?s a \"1")}
DatasetUris == {None, Some("urn:ds:1")}
CollectionUris == {None, Some("urn:fc:1")}

\* CQL filter text, spliced into the query as it comes
CqlQueries == {None, Some(<<Kw("FILTER"), LPar, Var("f"), Punct("="), Var("f"), RPar>>)}

\* what the triplestore client answers: (True, rows) or (False, {code, message})
StoreResponses ==
    {[ok |-> TRUE, rows |-> <<>>, code |-> "", message |-> ""],
     [ok |-> TRUE, rows |-> <<"row1">>, code |-> "", message |-> ""],
     [ok |-> FALSE, rows |-> <<>>, code |-> "500", message |-> "store error"]}

\* the contents the triplestore goes through while the process runs
StoreVersions == <<"v1", "v2">>

\* the failure the triplestore client reports: (False, {code, message})
StoreFailure == [ok |-> FALSE, rows |-> <<>>, code |-> "500", message |-> "store error"]

\* (True, rows)
StoreSuccess(rows) == [ok |-> TRUE, rows |-> rows, code |-> "", message |-> ""]

\* what a SELECT or CONSTRUCT over features yields from the contents st
FeatureRows(st) == <<"rows of " \o st>>

\* what the client may answer to a query over the contents st
Answers(st) == {StoreSuccess(FeatureRows(st)), StoreFailure}

\* one solution of the queries of get_object_uri_and_classes
Binding(f, class) ==
    [f |-> f, fc |-> Some("urn:fc:1"), d |-> Some("urn:ds:1"), class |-> class,
     f_id |-> "f1", fc_id |-> "fc1", d_id |-> "ds1"]

\* the solutions of the identifier query (its patterns are all OPTIONAL, so
\* there is always one) and of the URI query: the feature is of two classes
\* in "v1" and deleted in "v2"
ObjectRows(st, by_id) ==
    IF st = "v1"
    THEN <<Binding(Some("urn:f:1"), Some("geo:Feature")), Binding(Some("urn:f:1"), Some("ex:Well"))>>
    ELSE IF by_id THEN <<Binding(None, None)>> ELSE <<>>

ObjectAnswers(st, by_id) == {StoreSuccess(ObjectRows(st, by_id)), StoreFailure}

\* the solutions of the query of get_uri
UriRows(st) == IF st = "v1" THEN <<[item_uri |-> "urn:ds:1"]>> ELSE <<>>

UriAnswers(st) == {StoreSuccess(UriRows(st)), StoreFailure}

\* search terms: the strings of letters and spaces up to MaxTermLen
TermChars == {"a", " "}
Terms == UNION {[1 .. n -> TermChars] : n \in 0 .. MaxTermLen}

\* predicate lists searched directly: absent, empty, one or two predicates
NonShaclPredicates ==
    {None, Some(<<>>), Some(<<"rdfs:label">>), Some(<<"rdfs:label", "rdfs:comment">>)}

\* a (tssp_list, preds) pair: the path from ?focus_node to the searched node
\* and the predicates indexed on that node
TsspEntry(path, p) ==
    <<(<<(<<Var("focus_node"), Iri(path), Var("fts_search_node")>>)>>), (<<p>>)>>

\* (tssp_list, preds) pairs: absent, none, one or two
ShaclTsspPreds ==
    {None, Some(<<>>), Some(<<TsspEntry("ex:path", "ex:p1")>>),
     Some(<<TsspEntry("ex:path", "ex:p1"), TsspEntry("ex:path2", "ex:p2")>>)}

\* extra construct triples: absent, none or one
TssLists == {None, Some(<<>>), Some(<<(<<Var("focus_node"), Iri("rdfs:label"), Var("label")>>)>>)}

\* negotiation: classes A below B below the general class geo:Feature
NegA == "neg:A"
NegB == "neg:B"
NegGeneral == "geo:Feature"
NegP1 == "prof:P1"
NegP2 == "prof:P2"
Html == "text/html"
Turtle == "text/turtle"

\* the graph of a negotiation setting: the class each profile constrains, the
\* default profile declared for each class (by a shape targeting it), and the
\* formats of each profile with its default one, if any
MkNegotiationGraph(cfg) ==
    {<<NegA, subClassOf, NegB>>, <<NegB, subClassOf, NegGeneral>>,
     <<NegP1, constrainsClass, cfg.c1>>, <<NegP2, constrainsClass, cfg.c2>>,
     <<"_:shA", targetClass, NegA>>, <<"_:shB", targetClass, NegB>>,
     <<"_:shG", targetClass, NegGeneral>>}
    \cup {<<"_:shA", hasDefaultProfile, p>> : p \in cfg.defA}
    \cup {<<"_:shB", hasDefaultProfile, p>> : p \in cfg.defB}
    \cup {<<"_:shG", hasDefaultProfile, NegP2>>}
    \cup {<<NegP1, hasResourceFormat, f>> : f \in cfg.f1}
    \cup {<<NegP2, hasResourceFormat, f>> : f \in {Html, Turtle}}
    \cup {<<NegP1, hasDefaultResourceFormat, f>> : f \in cfg.d1}
    \cup {<<NegP2, hasDefaultResourceFormat, Turtle>>}

NegotiationGraphs ==
    {MkNegotiationGraph([c1 |-> c1, c2 |-> c2, defA |-> defA, defB |-> defB,
                         f1 |-> f1, d1 |-> d1])
     : c1 \in {NegA, NegB}, c2 \in {NegB, NegGeneral},
       defA \in {{}, {NegP1}}, defB \in {{}, {NegP2}},
       f1 \in {{Html}, {Html, Turtle}}, d1 \in {{}, {Html}}}

CandidateClassLists == {<<NegA>>, <<NegB>>, <<NegA, NegB>>, <<NegB, NegA, NegGeneral>>}
RequestedProfiles == {None, Some(NegP1), Some(NegP2), Some("prof:P3")}

\* (weight in tenths, mediatype) preferences
RequestedMediatypes ==
    {None, Some(<<>>), Some(<<(<<9, Html>>)>>), Some(<<(<<9, Turtle>>), (<<8, Html>>)>>),
     Some(<<(<<9, Html>>), (<<8, Html>>)>>), Some(<<(<<9, Html>>), (<<9, Html>>)>>)}

----------------------------------------------------------------------------
(* State *)

NoCall == [op |-> "none", args |-> <<>>, hit |-> FALSE]
NoResult == [kind |-> "none", value |-> <<>>]

Returned(v) == [kind |-> "return", value |-> v]
Raised(e) == [kind |-> "raise", value |-> e]

\* the predicate resolutions that read the profile graph, by arguments
TraversalKeys == {"get_item_predicates", "get_listing_predicates"} \X Profiles \X Classes

\* the resolutions of keys each read the profile graph once more
Traverse(keys) ==
    traversals' = [k \in TraversalKeys |-> IF k \in keys THEN traversals[k] + 1
                                           ELSE traversals[k]]

InitWith(graphs) ==
    /\ profiles_graph_cache \in graphs
    /\ caches = [n \in CacheNames |-> <<>>]
    /\ pc = "idle"
    /\ call = NoCall
    /\ sent = <<>>
    /\ result = NoResult
    /\ search_query = None
    /\ store = StoreVersions[1]
    /\ traversals = [k \in TraversalKeys |-> 0]
    /\ requests = 0
    /\ answered = <<>>

\* a call that queries no store ends after the resolutions of keys ran
FinishAfter(op, args, hit, res, keys) ==
    /\ pc' = "returned"
    /\ call' = [op |-> op, args |-> args, hit |-> hit]
    /\ result' = res
    /\ sent' = <<>>
    /\ answered' = <<>>
    /\ Traverse(keys)
    /\ UNCHANGED <<search_query, store, requests>>

\* a call that queries no store and resolves no predicates ends
Finish(op, args, hit, res) == FinishAfter(op, args, hit, res, {})

\* r = await sparql_query(q, "SpacePrez"); return r[1] if r[0], else
\* raise Exception(f"SPARQL query error code {r[1]['code']}: {r[1]['message']}")
QueryStore(op, args, q, resp) ==
    /\ pc' = "returned"
    /\ call' = [op |-> op, args |-> args, hit |-> FALSE]
    /\ sent' = <<q>>
    /\ answered' = <<resp>>
    /\ result' = IF resp.ok THEN Returned(resp.rows)
                 ELSE Raised(<<"Exception", resp.code, resp.message>>)
    /\ UNCHANGED <<search_query, store, traversals, requests>>

\* a call that sent the queries qs and was answered resps ends with res
FinishSent(op, args, qs, resps, res) ==
    /\ pc' = "returned"
    /\ call' = [op |-> op, args |-> args, hit |-> FALSE]
    /\ sent' = qs
    /\ answered' = resps
    /\ result' = res
    /\ UNCHANGED <<search_query, store, traversals, requests>>

\* raise ValueError("Either an ID or a URI must be provided for a SPARQL query")
RaiseNoTarget(op, args) ==
    Finish(op, args, FALSE,
           Raised(<<"ValueError", "Either an ID or a URI must be provided for a SPARQL query">>))

\* the process takes up the next call, with its caches as the last one left them
NextRequest ==
    /\ pc = "returned"
    /\ requests + 1 < MaxRequests
    /\ pc' = "idle"
    /\ requests' = requests + 1
    /\ UNCHANGED <<profiles_graph_cache, caches, call, sent, result, search_query, store,
                   traversals, answered>>

----------------------------------------------------------------------------
(* Operations of spaceprez_service.py *)

\* list_datasets(page, per_page)
ListDatasets(page, per_page, resp) ==
    /\ pc = "idle"
    /\ QueryStore("list_datasets", <<page, per_page>>, list_datasets_query(page, per_page), resp)
    /\ UNCHANGED <<profiles_graph_cache, caches>>

\* list_collections(dataset_id, page, per_page)
ListCollections(dataset_id, page, per_page, resp) ==
    /\ pc = "idle"
    /\ QueryStore("list_collections", <<dataset_id, page, per_page>>,
                  list_collections_query(dataset_id, page, per_page), resp)
    /\ UNCHANGED <<profiles_graph_cache, caches>>

\* @alru_cache(maxsize=20) list_features(dataset_id, collection_id, cql_query, page, per_page)
ListFeatures(dataset_id, collection_id, cql_query, page, per_page, resp) ==
    LET c == caches["list_features"]
        key == <<dataset_id, collection_id, cql_query, page, per_page>>
        i == LruFind(c, key)
    IN  /\ pc = "idle"
        /\ IF i # 0
           THEN /\ caches' = [caches EXCEPT !["list_features"] = LruTouch(c, i)]
                /\ Finish("list_features", key, TRUE, Returned(c[i][2]))
           ELSE /\ QueryStore("list_features", key,
                              list_features_query(dataset_id, collection_id, cql_query,
                                                  page, per_page), resp)
                /\ caches' = IF resp.ok
                             THEN [caches EXCEPT !["list_features"] =
                                       LruStore(c, ListFeaturesMaxsize, key, resp.rows)]
                             ELSE caches
        /\ UNCHANGED profiles_graph_cache

\* @alru_cache(maxsize=20) count_features(dataset_id, collection_id, cql_query)
CountFeatures(dataset_id, collection_id, cql_query, resp) ==
    LET c == caches["count_features"]
        key == <<dataset_id, collection_id, cql_query>>
        i == LruFind(c, key)
    IN  /\ pc = "idle"
        /\ IF i # 0
           THEN /\ caches' = [caches EXCEPT !["count_features"] = LruTouch(c, i)]
                /\ Finish("count_features", key, TRUE, Returned(c[i][2]))
           ELSE /\ QueryStore("count_features", key,
                              count_features_query(dataset_id, collection_id, cql_query), resp)
                /\ caches' = IF resp.ok
                             THEN [caches EXCEPT !["count_features"] =
                                       LruStore(c, CountFeaturesMaxsize, key, resp.rows)]
                             ELSE caches
        /\ UNCHANGED profiles_graph_cache

\* get_uri(item_id, klass): the URI of the first solution on success; on a
\* store failure, as without an item_id, the function falls off its end
GetUri(item_id, klass, resp) ==
    LET args == <<item_id, klass>>
    IN  /\ pc = "idle"
        /\ IF Truthy(item_id)
           THEN FinishSent("get_uri", args, <<get_uri_query(item_id, klass)>>, <<resp>>,
                           IF resp.ok
                           THEN (IF resp.rows = <<>> THEN Raised(<<"IndexError">>)
                                 ELSE Returned(Some(resp.rows[1].item_uri)))
                           ELSE Returned(None))
           ELSE Finish("get_uri", args, FALSE, Returned(None))
        /\ UNCHANGED <<profiles_graph_cache, caches>>

\* return None, None, None, None, None  # effectively 404
NotFound == <<None, None, None, None, None>>

\* [c["class"]["value"] for c in r[1]]
ClassesOf(rows) == [i \in 1 .. Len(rows) |-> rows[i].class[1]]

\* what get_object_uri_and_classes computes from the answer to its
\* identifier query
ObjectById(feature_id, collection_id, dataset_id, resp) ==
    IF ~resp.ok THEN Returned(NotFound)
    ELSE IF resp.rows = <<>> THEN Raised(<<"IndexError">>)
    ELSE LET first == resp.rows[1]
         IN  Returned(<<feature_id, collection_id, dataset_id, first.f, first.fc, first.d,
                        IF first.f # None THEN ClassesOf(resp.rows) ELSE <<>> >>)

\* what it computes from the answer to its URI query
ObjectByUri(resp) ==
    IF ~resp.ok THEN Returned(NotFound)
    ELSE IF resp.rows = <<>> THEN Raised(<<"IndexError">>)
    ELSE LET first == resp.rows[1]
         IN  Returned(<<Some(first.f_id), Some(first.fc_id), Some(first.d_id),
                        first.f, first.fc, first.d, ClassesOf(resp.rows)>>)

\* @lru_cache(maxsize=50) get_object_uri_and_classes(feature_id, collection_id,
\* dataset_id, feature_uri, collection_uri, dataset_uri): whatever it returns
\* is stored, the 404 tuple of a store failure included; only an exception
\* is not
GetObjectUriAndClasses(feature_id, collection_id, dataset_id, feature_uri, collection_uri, dataset_uri, resp) ==
    LET c == caches["get_object_uri_and_classes"]
        key == <<feature_id, collection_id, dataset_id, feature_uri, collection_uri,
                 dataset_uri>>
        i == LruFind(c, key)
        by_id == Truthy(dataset_id)
        by_uri == Truthy(feature_uri) \/ Truthy(collection_uri) \/ Truthy(dataset_uri)
        qs == IF by_id
              THEN <<get_object_uri_and_classes_query_by_id(feature_id, collection_id,
                                                            dataset_id)>>
              ELSE IF by_uri
              THEN <<get_object_uri_and_classes_query_by_uri(feature_uri, collection_uri,
                                                             dataset_uri)>>
              ELSE <<>>
        res == IF by_id THEN ObjectById(feature_id, collection_id, dataset_id, resp)
               ELSE IF by_uri THEN ObjectByUri(resp)
               ELSE Returned(NotFound)
    IN  /\ pc = "idle"
        /\ IF i # 0
           THEN /\ caches' = [caches EXCEPT !["get_object_uri_and_classes"] = LruTouch(c, i)]
                /\ Finish("get_object_uri_and_classes", key, TRUE, Returned(c[i][2]))
           ELSE /\ FinishSent("get_object_uri_and_classes", key, qs,
                              IF qs = <<>> THEN <<>> ELSE <<resp>>, res)
                /\ caches' = IF res.kind = "return"
                             THEN [caches EXCEPT !["get_object_uri_and_classes"] =
                                       LruStore(c, ObjectUriMaxsize, key, res.value)]
                             ELSE caches
        /\ UNCHANGED profiles_graph_cache

\* @lru_cache(maxsize=20) get_feature_construct(feature_uri)
GetFeatureConstruct(feature_uri, resp) ==
    LET c == caches["get_feature_construct"]
        key == <<feature_uri>>
        i == LruFind(c, key)
    IN  /\ pc = "idle"
        /\ IF i # 0
           THEN /\ caches' = [caches EXCEPT !["get_feature_construct"] = LruTouch(c, i)]
                /\ Finish("get_feature_construct", key, TRUE, Returned(c[i][2]))
           ELSE /\ QueryStore("get_feature_construct", key,
                              get_feature_construct_query(feature_uri), resp)
                /\ caches' = IF resp.ok
                             THEN [caches EXCEPT !["get_feature_construct"] =
                                       LruStore(c, FeatureConstructMaxsize, key, resp.rows)]
                             ELSE caches
        /\ UNCHANGED profiles_graph_cache

\* the data in the triplestore is replaced while the process runs
StoreUpdate ==
    /\ pc = "idle"
    /\ store = StoreVersions[1]
    /\ store' = StoreVersions[2]
    /\ UNCHANGED <<profiles_graph_cache, caches, pc, call, sent, result, search_query,
                   traversals, requests, answered>>

\* cql_search(params, page, per_page, collection_id): the window is formatted
\* unconditionally, so an absent page or per_page is a TypeError
CqlSearch(bbox, page, per_page, resp) ==
    /\ pc = "idle"
    /\ IF page = None \/ per_page = None
       THEN Finish("cql_search", <<bbox, page, per_page>>, FALSE, Raised(<<"TypeError">>))
       ELSE QueryStore("cql_search", <<bbox, page, per_page>>,
                       cql_search_query(bbox, page[1], per_page[1]), resp)
    /\ UNCHANGED <<profiles_graph_cache, caches>>

\* get_dataset_construct(dataset_id, dataset_uri)
GetDatasetConstruct(dataset_id, dataset_uri, resp) ==
    /\ pc = "idle"
    /\ IF dataset_id = None /\ dataset_uri = None
       THEN RaiseNoTarget("get_dataset_construct", <<dataset_id, dataset_uri>>)
       ELSE QueryStore("get_dataset_construct", <<dataset_id, dataset_uri>>,
                       get_dataset_construct_query(dataset_id, dataset_uri), resp)
    /\ UNCHANGED <<profiles_graph_cache, caches>>

\* get_collection_construct_1(dataset_id, collection_id, collection_uri)
GetCollectionConstruct1(dataset_id, collection_id, collection_uri, resp) ==
    /\ pc = "idle"
    /\ IF collection_id = None /\ collection_uri = None
       THEN RaiseNoTarget("get_collection_construct_1", <<dataset_id, collection_id, collection_uri>>)
       ELSE QueryStore("get_collection_construct_1", <<dataset_id, collection_id, collection_uri>>,
                       get_collection_construct_1_query(dataset_id, collection_id, collection_uri),
                       resp)
    /\ UNCHANGED <<profiles_graph_cache, caches>>

\* get_collection_construct_2(dataset_id, collection_id, collection_uri)
GetCollectionConstruct2(dataset_id, collection_id, collection_uri, resp) ==
    /\ pc = "idle"
    /\ IF collection_id = None /\ collection_uri = None
       THEN RaiseNoTarget("get_collection_construct_2", <<dataset_id, collection_id, collection_uri>>)
       ELSE QueryStore("get_collection_construct_2", <<dataset_id, collection_id, collection_uri>>,
                       get_collection_construct_2_query(dataset_id, collection_id, collection_uri),
                       resp)
    /\ UNCHANGED <<profiles_graph_cache, caches>>

----------------------------------------------------------------------------
(* Operations of sparql_new.py *)

\* @lru_cache(maxsize=128) generate_item_construct(item, profile)
GenerateItemConstruct(item, profile) ==
    LET c == caches["generate_item_construct"]
        key == <<item, profile>>
        i == LruFind(c, key)
    IN  /\ pc = "idle"
        /\ IF i # 0
           THEN /\ caches' = [caches EXCEPT !["generate_item_construct"] = LruTouch(c, i)]
                /\ Finish("generate_item_construct", key, TRUE, Returned(c[i][2]))
           ELSE LET q == generate_item_construct(profiles_graph_cache, item, profile)
                IN  /\ caches' = [caches EXCEPT !["generate_item_construct"] =
                                      LruStore(c, ItemConstructMaxsize, key, q)]
                    /\ FinishAfter("generate_item_construct", key, FALSE, Returned(q),
                                   {<<"get_item_predicates", profile, item.selected_class>>})
        /\ UNCHANGED profiles_graph_cache

\* generate_listing_construct(parent_item, profile, page, per_page)
GenerateListingConstruct(parent_item, profile, page, per_page) ==
    /\ pc = "idle"
    /\ FinishAfter("generate_listing_construct", <<parent_item, profile, page, per_page>>,
                   FALSE,
                   Returned(generate_listing_construct(profiles_graph_cache, parent_item,
                                                       profile, page, per_page)),
                   {<<"get_listing_predicates", profile, parent_item.selected_class>>})
    /\ UNCHANGED <<profiles_graph_cache, caches>>

\* generate_bnode_construct(depth)
GenerateBnodeConstruct(depth) ==
    /\ pc = "idle"
    /\ Finish("generate_bnode_construct", <<depth>>, FALSE, Returned(generate_bnode_construct(depth)))
    /\ UNCHANGED <<profiles_graph_cache, caches>>

\* generate_bnode_select(depth)
GenerateBnodeSelect(depth) ==
    /\ pc = "idle"
    /\ Finish("generate_bnode_select", <<depth>>, FALSE, Returned(generate_bnode_select(depth)))
    /\ UNCHANGED <<profiles_graph_cache, caches>>

\* generate_sequence_construct(object_uri, sequence_predicates)
GenerateSequenceConstruct(object_uri, sequence_predicates) ==
    /\ pc = "idle"
    /\ Finish("generate_sequence_construct", <<object_uri, sequence_predicates>>, FALSE,
              Returned(generate_sequence_construct(object_uri, sequence_predicates)))
    /\ UNCHANGED <<profiles_graph_cache, caches>>

\* generate_inverse_predicates(inverse_predicates)
GenerateInversePredicates(inverse_predicates) ==
    /\ pc = "idle"
    /\ Finish("generate_inverse_predicates", <<inverse_predicates>>, FALSE,
              Returned(generate_inverse_predicates(inverse_predicates)))
    /\ UNCHANGED <<profiles_graph_cache, caches>>

\* generate_include_predicates(include_predicates)
GenerateIncludePredicates(include_predicates) ==
    /\ pc = "idle"
    /\ Finish("generate_include_predicates", <<include_predicates>>, FALSE,
              Returned(generate_include_predicates(include_predicates)))
    /\ UNCHANGED <<profiles_graph_cache, caches>>

\* generate_listing_count_construct(item)
GenerateListingCountConstruct(item) ==
    /\ pc = "idle"
    /\ Finish("generate_listing_count_construct", <<item>>, FALSE,
              Returned(generate_listing_count_construct(item)))
    /\ UNCHANGED <<profiles_graph_cache, caches>>

\* get_item_predicates(profile, selected_class), called directly: the
\* function carries no cache decorator, every call reads the profile graph
GetItemPredicates(profile, selected_class) ==
    /\ pc = "idle"
    /\ FinishAfter("get_item_predicates", <<profile, selected_class>>, FALSE,
                   Returned(get_item_predicates(profiles_graph_cache, profile, selected_class)),
                   {<<"get_item_predicates", profile, selected_class>>})
    /\ UNCHANGED <<profiles_graph_cache, caches>>

\* get_listing_predicates(profile, selected_class), called directly: no cache
\* decorator either
GetListingPredicates(profile, selected_class) ==
    /\ pc = "idle"
    /\ FinishAfter("get_listing_predicates", <<profile, selected_class>>, FALSE,
                   Returned(get_listing_predicates(profiles_graph_cache, profile,
                                                   selected_class)),
                   {<<"get_listing_predicates", profile, selected_class>>})
    /\ UNCHANGED <<profiles_graph_cache, caches>>

----------------------------------------------------------------------------
(* Operations of search_fuseki_fts.py *)

\* SearchQueryFusekiFTS.__init__: iterating an absent shacl_tssp_preds is a
\* TypeError and no object exists; otherwise the object is held
NewSearchQueryFusekiFTS(term, limit, offset, non_shacl_predicates, shacl_tssp_preds, tss_list) ==
    /\ pc = "idle"
    /\ call' = [op |-> "SearchQueryFusekiFTS",
                args |-> <<term, limit, offset, non_shacl_predicates, shacl_tssp_preds,
                           tss_list>>,
                hit |-> FALSE]
    /\ sent' = <<>>
    /\ IF shacl_tssp_preds = None
       THEN /\ pc' = "returned"
            /\ result' = Raised(<<"TypeError">>)
            /\ search_query' = None
       ELSE /\ pc' = "constructed"
            /\ result' = Returned(<<"SearchQueryFusekiFTS">>)
            /\ search_query' = Some(SearchQueryFusekiFTS(term, limit, offset,
                                                         non_shacl_predicates,
                                                         shacl_tssp_preds[1], tss_list))
    /\ UNCHANGED <<profiles_graph_cache, caches, store, traversals, requests, answered>>

\* the limit property: the limit of the inner SELECT's LimitClause
ReadLimit ==
    /\ pc = "constructed"
    /\ pc' = "returned"
    /\ call' = [call EXCEPT !.op = "limit"]
    /\ result' = Returned(search_query[1].where_clause.solution_modifier.limit[1])
    /\ UNCHANGED <<profiles_graph_cache, caches, sent, search_query, store, traversals,
                   requests, answered>>

\* the offset property: the offset of the inner SELECT's OffsetClause
ReadOffset ==
    /\ pc = "constructed"
    /\ pc' = "returned"
    /\ call' = [call EXCEPT !.op = "offset"]
    /\ result' = Returned(search_query[1].where_clause.solution_modifier.offset[1])
    /\ UNCHANGED <<profiles_graph_cache, caches, sent, search_query, store, traversals,
                   requests, answered>>

----------------------------------------------------------------------------
(* Specifications *)

\* listings and the SpacePrez service operations, over every listing graph
Init == InitWith(ListingGraphs)

Next ==
    \/ \E parent_item \in Items, profile \in Profiles, page \in Pages, per_page \in PerPages :
           GenerateListingConstruct(parent_item, profile, page, per_page)
    \/ \E page \in Pages, per_page \in PerPages, resp \in StoreResponses :
           ListDatasets(page, per_page, resp)
    \/ \E dataset_id \in DatasetIds, page \in Pages, per_page \in PerPages,
          resp \in StoreResponses :
           ListCollections(dataset_id, page, per_page, resp)
    \/ \E dataset_id \in DatasetIds, collection_id \in CollectionIds, cql_query \in CqlQueries,
          page \in Pages, per_page \in PerPages, resp \in StoreResponses :
           ListFeatures(dataset_id, collection_id, cql_query, page, per_page, resp)
    \/ \E bbox \in {None, Some("bbox")}, page \in Pages, per_page \in PerPages,
          resp \in StoreResponses :
           CqlSearch(bbox, page, per_page, resp)
    \/ \E dataset_id \in DatasetIds, dataset_uri \in DatasetUris, resp \in StoreResponses :
           GetDatasetConstruct(dataset_id, dataset_uri, resp)
    \/ \E dataset_id \in DatasetIds, collection_id \in CollectionIds,
          collection_uri \in CollectionUris, resp \in StoreResponses :
           GetCollectionConstruct1(dataset_id, collection_id, collection_uri, resp)
    \/ \E dataset_id \in DatasetIds, collection_id \in CollectionIds,
          collection_uri \in CollectionUris, resp \in StoreResponses :
           GetCollectionConstruct2(dataset_id, collection_id, collection_uri, resp)

Spec == Init /\ [][Next]_vars

\* single-item retrieval over every item graph
InitItem == InitWith(ItemGraphs)

NextItem == \E item \in Items, profile \in Profiles : GenerateItemConstruct(item, profile)

SpecItem == InitItem /\ [][NextItem]_vars

\* the fragment builders, called directly
InitFragments == InitWith({SampleGraph})

NextFragments ==
    \/ \E d \in -1 .. MaxDepth : GenerateBnodeConstruct(d)
    \/ \E d \in -1 .. MaxDepth : GenerateBnodeSelect(d)
    \/ \E u \in Uris, l \in {None} \cup {Some(x) : x \in ChainLists} :
           GenerateSequenceConstruct(u, l)
    \/ \E n \in 0 .. MaxPreds, isNone \in BOOLEAN :
           GenerateIncludePredicates(IF isNone THEN None ELSE Some(SetToSeq(PredsUpTo("ex:p", n))))
    \/ \E n \in 0 .. MaxPreds, isNone \in BOOLEAN :
           GenerateInversePredicates(IF isNone THEN None ELSE Some(SetToSeq(PredsUpTo("ex:q", n))))

SpecFragments == InitFragments /\ [][NextFragments]_vars

\* the full-text search query: construction, then its properties read
InitFTS == InitWith({SampleGraph})

NextFTS ==
    \/ \E term \in Terms, limit \in 0 .. MaxLimit, offset \in 0 .. MaxOffset,
          non_shacl_predicates \in NonShaclPredicates,
          shacl_tssp_preds \in ShaclTsspPreds, tss_list \in TssLists :
           NewSearchQueryFusekiFTS(term, limit, offset, non_shacl_predicates,
                                   shacl_tssp_preds, tss_list)
    \/ ReadLimit
    \/ ReadOffset

SpecFTS == InitFTS /\ [][NextFTS]_vars

\* predicate resolution over several calls of one process: the resolvers
\* called directly, and through the memoized generate_item_construct
InitResolve == InitWith({SampleGraph})

NextResolve ==
    \/ \E profile \in Profiles, selected_class \in Classes :
           GetItemPredicates(profile, selected_class)
    \/ \E profile \in Profiles, selected_class \in Classes :
           GetListingPredicates(profile, selected_class)
    \/ \E item \in Items, profile \in Profiles : GenerateItemConstruct(item, profile)
    \/ NextRequest

SpecResolve == InitResolve /\ [][NextResolve]_vars

\* maxsize of each decorator, by the function it decorates
Maxsize ==
    [generate_item_construct |-> ItemConstructMaxsize,
     count_features |-> CountFeaturesMaxsize,
     list_features |-> ListFeaturesMaxsize,
     get_object_uri_and_classes |-> ObjectUriMaxsize,
     get_feature_construct |-> FeatureConstructMaxsize]

\* the k-th of the items, datasets and features the process has served before
ServedItem(k) ==
    [uri |-> Some("urn:item:" \o ToString(k)), selected_class |-> ClassA,
     general_class |-> "cls:General", link_constructor |-> "/s/items"]
ServedDataset(k) == Some("ds" \o ToString(k))
ServedFeature(k) == Some("f" \o ToString(k))
ServedFeatureUri(k) == Some("urn:f:" \o ToString(k))

\* the entry that the k-th earlier call left in the cache of function name,
\* made against the contents "v1" of the store
ServedEntry(name, k) ==
    IF name = "generate_item_construct"
    THEN <<(<<ServedItem(k), ProfileP>>),
           generate_item_construct(SampleGraph, ServedItem(k), ProfileP)>>
    ELSE IF name = "count_features"
    THEN <<(<<ServedDataset(k), None, None>>), FeatureRows(StoreVersions[1])>>
    ELSE IF name = "list_features"
    THEN <<(<<ServedDataset(k), None, None, None, None>>), FeatureRows(StoreVersions[1])>>
    ELSE IF name = "get_object_uri_and_classes"
    THEN <<(<<ServedFeature(k), Some("fc1"), Some("ds1"), None, None, None>>),
           ObjectById(ServedFeature(k), Some("fc1"), Some("ds1"),
                      StoreSuccess(ObjectRows(StoreVersions[1], TRUE))).value>>
    ELSE <<(<<ServedFeatureUri(k)>>), FeatureRows(StoreVersions[1])>>

\* the cache of function name after calls 1 .. n with distinct arguments
Warm(name, n) == [k \in 1 .. n |-> ServedEntry(name, k)]

\* how far the earlier calls have filled each cache
Fills == {"empty", "one short", "full"}

\* the number of entries of a cache of maxsize n filled that far
Entries(fill, n) == IF fill = "empty" THEN 0 ELSE IF fill = "one short" THEN n - 1 ELSE n

\* the memoized functions over several calls of one process whose caches
\* start cold, one short of full, or full, while the store's data changes
InitMemo ==
    \E fill \in Fills :
        /\ profiles_graph_cache = SampleGraph
        /\ caches = [n \in CacheNames |-> Warm(n, Entries(fill, Maxsize[n]))]
        /\ pc = "idle"
        /\ call = NoCall
        /\ sent = <<>>
        /\ result = NoResult
        /\ search_query = None
        /\ store = StoreVersions[1]
        /\ traversals = [k \in TraversalKeys |-> 0]
        /\ requests = 0
        /\ answered = <<>>

NextMemo ==
    \/ \E k \in 0 .. 1 : GenerateItemConstruct(ServedItem(k), ProfileP)
    \/ \E k \in 0 .. 1, resp \in Answers(store) :
           CountFeatures(ServedDataset(k), None, None, resp)
    \/ \E k \in 0 .. 1, resp \in Answers(store) :
           ListFeatures(ServedDataset(k), None, None, None, None, resp)
    \/ \E k \in 0 .. 1, resp \in ObjectAnswers(store, TRUE) :
           GetObjectUriAndClasses(ServedFeature(k), Some("fc1"), Some("ds1"), None, None, None,
                                  resp)
    \/ \E resp \in ObjectAnswers(store, FALSE) :
           GetObjectUriAndClasses(None, None, None, ServedFeatureUri(1), Some("urn:fc:1"),
                                  Some("urn:ds:1"), resp)
    \/ GetObjectUriAndClasses(None, None, None, None, None, None, StoreFailure)
    \/ \E k \in 0 .. 1, resp \in Answers(store) : GetFeatureConstruct(ServedFeatureUri(k), resp)
    \/ StoreUpdate
    \/ NextRequest

SpecMemo == InitMemo /\ [][NextMemo]_vars

\* the concurrent callers
Tasks == 1 .. NumTasks

\* the calls the tasks race on: a key served before and a fresh one, for
\* each of the three decorated functions
RaceCalls ==
    {<<"generate_item_construct", <<ServedItem(k), ProfileP>> >> : k \in 0 .. 1}
        \union {<<"count_features", <<ServedDataset(k), None, None>> >> : k \in 0 .. 1}
        \union {<<"get_object_uri_and_classes",
                  <<ServedFeature(k), Some("fc1"), Some("ds1"), None, None, None>> >> :
                      k \in 0 .. 1}

\* what the decorated function op computes for args from the profile graph
\* and from the answer of a store that holds st
Computed(op, args, graph, st) ==
    IF op = "generate_item_construct" THEN generate_item_construct(graph, args[1], args[2])
    ELSE IF op = "count_features" THEN StoreSuccess(FeatureRows(st)).rows
    ELSE ObjectById(args[1], args[2], args[3], StoreSuccess(ObjectRows(st, TRUE))).value

\* task t calls a function under functools.lru_cache: the lookup is one
\* step under the cache's lock; on a miss the function runs outside it
LruEnter(t, op, args) ==
    LET c == caches[op]
        i == LruFind(c, args)
    IN  /\ pc[t] = "idle"
        /\ op \in {"generate_item_construct", "get_object_uri_and_classes"}
        /\ call' = [call EXCEPT ![t] = [op |-> op, args |-> args, hit |-> i # 0]]
        /\ IF i # 0
           THEN /\ caches' = [caches EXCEPT ![op] = LruTouch(c, i)]
                /\ pc' = [pc EXCEPT ![t] = "returned"]
                /\ result' = [result EXCEPT ![t] = Returned(c[i][2])]
           ELSE /\ pc' = [pc EXCEPT ![t] = "computing"]
                /\ UNCHANGED <<caches, result>>
        /\ UNCHANGED <<profiles_graph_cache, sent, search_query, store, traversals, requests,
                       answered>>

\* the function of task t has run: its value is stored under the lock
\* unless the key is there by now, and returned either way
LruLeave(t) ==
    LET op == call[t].op
        key == call[t].args
        value == Computed(op, key, profiles_graph_cache, store)
    IN  /\ pc[t] = "computing"
        /\ caches' = [caches EXCEPT ![op] = LruStoreIfAbsent(caches[op], Maxsize[op], key, value)]
        /\ pc' = [pc EXCEPT ![t] = "returned"]
        /\ result' = [result EXCEPT ![t] = Returned(value)]
        /\ UNCHANGED <<profiles_graph_cache, call, sent, search_query, store, traversals,
                       requests, answered>>

\* the task that runs count_features for the future of key, 0 if none does
Owner(key) ==
    IF \E u \in Tasks : pc[u] = "sent" /\ call[u].args = key
    THEN CHOOSE u \in Tasks : pc[u] = "sent" /\ call[u].args = key
    ELSE 0

\* task t calls count_features under alru_cache: a miss stores a future
\* before the query is awaited, a hit on an unresolved future awaits it
AlruEnter(t, dataset_id, collection_id, cql_query) ==
    LET c == caches["count_features"]
        key == <<dataset_id, collection_id, cql_query>>
        i == LruFind(c, key)
    IN  /\ pc[t] = "idle"
        /\ call' = [call EXCEPT ![t] = [op |-> "count_features", args |-> key, hit |-> i # 0,
                                        owner |-> IF i # 0 THEN Owner(key) ELSE t]]
        /\ IF i # 0
           THEN /\ caches' = [caches EXCEPT !["count_features"] = LruTouch(c, i)]
                /\ IF Owner(key) # 0
                   THEN /\ pc' = [pc EXCEPT ![t] = "awaiting"]
                        /\ UNCHANGED result
                   ELSE /\ pc' = [pc EXCEPT ![t] = "returned"]
                        /\ result' = [result EXCEPT ![t] = Returned(c[i][2])]
                /\ UNCHANGED sent
           ELSE /\ caches' = [caches EXCEPT !["count_features"] =
                                  LruStore(c, CountFeaturesMaxsize, key, Pending)]
                /\ pc' = [pc EXCEPT ![t] = "sent"]
                /\ sent' = sent \o <<count_features_query(dataset_id, collection_id,
                                                          cql_query)>>
                /\ UNCHANGED result
        /\ UNCHANGED <<profiles_graph_cache, search_query, store, traversals, requests,
                       answered>>

\* the store answers the query of task t: its future is resolved
AlruAnswer(t) ==
    LET key == call[t].args
        value == Computed("count_features", key, profiles_graph_cache, store)
    IN  /\ pc[t] = "sent"
        /\ caches' = [caches EXCEPT !["count_features"] =
                          AlruResolve(caches["count_features"], key, value)]
        /\ pc' = [pc EXCEPT ![t] = "returned"]
        /\ result' = [result EXCEPT ![t] = Returned(value)]
        /\ UNCHANGED <<profiles_graph_cache, call, sent, search_query, store, traversals,
                       requests, answered>>

\* task t resumes with the result of the future it awaited
AlruWake(t) ==
    /\ pc[t] = "awaiting"
    /\ pc[call[t].owner] = "returned"
    /\ pc' = [pc EXCEPT ![t] = "returned"]
    /\ result' = [result EXCEPT ![t] = result[call[t].owner]]
    /\ UNCHANGED <<profiles_graph_cache, caches, call, sent, search_query, store, traversals,
                   requests, answered>>

\* concurrent tasks, one call each, on caches that start cold, one short of
\* full, or full; the profile graph and the store stay as they are
InitRace ==
    \E fill \in Fills :
        /\ profiles_graph_cache = SampleGraph
        /\ caches = [n \in CacheNames |-> Warm(n, Entries(fill, Maxsize[n]))]
        /\ pc = [t \in Tasks |-> "idle"]
        /\ call = [t \in Tasks |-> NoCall]
        /\ sent = <<>>
        /\ result = [t \in Tasks |-> NoResult]
        /\ search_query = None
        /\ store = StoreVersions[1]
        /\ traversals = [k \in TraversalKeys |-> 0]
        /\ requests = 0
        /\ answered = <<>>

NextRace ==
    \/ \E t \in Tasks, c \in RaceCalls : LruEnter(t, c[1], c[2])
    \/ \E t \in Tasks : LruLeave(t)
    \/ \E t \in Tasks, k \in 0 .. 1 : AlruEnter(t, ServedDataset(k), None, None)
    \/ \E t \in Tasks : AlruAnswer(t)
    \/ \E t \in Tasks : AlruWake(t)

SpecRace == InitRace /\ [][NextRace]_vars

\* every operation of spaceprez_service.py that queries the triplestore,
\* called once against a store that answers or fails
InitStore == InitWith({SampleGraph})

NextStore ==
    \/ \E page \in Pages, per_page \in PerPages, resp \in Answers(store) :
           ListDatasets(page, per_page, resp)
    \/ \E dataset_id \in DatasetIds, page \in Pages, resp \in Answers(store) :
           ListCollections(dataset_id, page, Some(10), resp)
    \/ \E dataset_id \in DatasetIds, collection_id \in CollectionIds, cql_query \in CqlQueries,
          resp \in Answers(store) :
           ListFeatures(dataset_id, collection_id, cql_query, Some(1), Some(10), resp)
    \/ \E dataset_id \in DatasetIds, collection_id \in CollectionIds, cql_query \in CqlQueries,
          resp \in Answers(store) :
           CountFeatures(dataset_id, collection_id, cql_query, resp)
    \/ \E bbox \in {None, Some("bbox")}, resp \in Answers(store) :
           CqlSearch(bbox, Some(1), Some(10), resp)
    \/ \E dataset_id \in DatasetIds, dataset_uri \in DatasetUris, resp \in Answers(store) :
           GetDatasetConstruct(dataset_id, dataset_uri, resp)
    \/ \E dataset_id \in DatasetIds, collection_id \in CollectionIds,
          collection_uri \in CollectionUris, resp \in Answers(store) :
           GetCollectionConstruct1(dataset_id, collection_id, collection_uri, resp)
    \/ \E dataset_id \in DatasetIds, collection_id \in CollectionIds,
          collection_uri \in CollectionUris, resp \in Answers(store) :
           GetCollectionConstruct2(dataset_id, collection_id, collection_uri, resp)
    \/ \E item_id \in DatasetIds, klass \in {Some("dcat:Dataset")}, resp \in UriAnswers(store) :
           GetUri(item_id, klass, resp)
    \/ \E feature_id \in {None, Some("f1")}, collection_id \in CollectionIds,
          dataset_id \in DatasetIds, dataset_uri \in DatasetUris :
           \E resp \in ObjectAnswers(store, Truthy(dataset_id)) :
               GetObjectUriAndClasses(feature_id, collection_id, dataset_id, None, None,
                                      dataset_uri, resp)
    \/ \E feature_uri \in {None, Some("urn:f:1")}, resp \in Answers(store) :
           GetFeatureConstruct(feature_uri, resp)
    \/ StoreUpdate

SpecStore == InitStore /\ [][NextStore]_vars

\* the operations that put an identifier of the request between quotes,
\* called once with identifiers as a client may send them
UserIds == DatasetIds \cup HostileIds

InitEscape == InitWith({SampleGraph})

NextEscape ==
    \/ \E dataset_id \in UserIds, dataset_uri \in DatasetUris, resp \in Answers(store) :
           GetDatasetConstruct(dataset_id, dataset_uri, resp)
    \/ \E dataset_id \in UserIds, collection_id \in UserIds, cql_query \in CqlQueries,
          resp \in Answers(store) :
           CountFeatures(dataset_id, collection_id, cql_query, resp)
    \/ \E item_id \in UserIds, klass \in {Some("dcat:Dataset")}, resp \in UriAnswers(store) :
           GetUri(item_id, klass, resp)

SpecEscape == InitEscape /\ [][NextEscape]_vars

\* the count query of a listing, for every counted item
InitCount == InitWith({SampleGraph})

NextCount == \E item \in CountedItems : GenerateListingCountConstruct(item)

SpecCount == InitCount /\ [][NextCount]_vars

----------------------------------------------------------------------------
(* Reading a generated query *)

\* the nesting level after token i: the blocks opened and not yet closed
BraceLevel(q, i) ==
    Cardinality({j \in 1 .. i : q[j] = LBrace}) - Cardinality({j \in 1 .. i : q[j] = RBrace})

\* every block that is opened is closed, and none is closed before it is opened
Balanced(q) ==
    /\ BraceLevel(q, Len(q)) = 0
    /\ \A i \in 1 .. Len(q) : BraceLevel(q, i) >= 0

\* the tokens of the CONSTRUCT template: between CONSTRUCT { and } WHERE
ConstructTemplate(q) == SubSeq(q, IndexOf(q, Kw("CONSTRUCT")) + 2, IndexOf(q, Kw("WHERE")) - 2)

\* the tokens of the WHERE clause: from WHERE to the end of the query
WhereClause(q) == SubSeq(q, IndexOf(q, Kw("WHERE")) + 1, Len(q))

\* the positions at which VALUES ?v { opens
ValuesAt(q, v) ==
    {i \in 1 .. (Len(q) - 2) : q[i] = Kw("VALUES") /\ q[i + 1] = Var(v) /\ q[i + 2] = LBrace}

\* the terms enumerated by the VALUES block that opens at position i
ValuesTerms(q, i) ==
    LET close == CHOOSE j \in (i + 3) .. Len(q) :
                     q[j] = RBrace /\ \A k \in (i + 3) .. (j - 1) : q[k] # RBrace
    IN  {q[k] : k \in (i + 3) .. (close - 1)}

RECURSIVE TotalLen(_)
\* the sum of the lengths of the members of a list of lists
TotalLen(lists) == IF lists = <<>> THEN 0 ELSE Len(Head(lists)) + TotalLen(Tail(lists))

\* the tokens generate_sequence_construct wrote for the k-th predicate list:
\* four per predicate, after those of the lists before it
ChainTokens(q, lists, k) ==
    LET before == TotalLen(SubSeq(lists, 1, k - 1))
    IN  SubSeq(q, 4 * before + 1, 4 * (before + Len(lists[k])))

Reverse(c) == [i \in 1 .. Len(c) |-> c[Len(c) + 1 - i]]

----------------------------------------------------------------------------
(* The negotiation query answered: the rows the WHERE pattern of            *)
(* select_profile_mediatype matches in the graph, grouped, ordered by the   *)
(* query's ORDER BY keys and cut by its LIMIT.  The classes, the requested  *)
(* profile, the mediatype weights and the keys are read from the query.     *)


\* the members of a set of integers, ascending
RECURSIVE Ascending(_)
Ascending(S) ==
    IF S = {} THEN <<>>
    ELSE LET m == CHOOSE x \in S : \A y \in S : x <= y IN <<m>> \o Ascending(S \ {m})

\* the classes of VALUES ?class { ... }
QueryClasses(q) ==
    UNION {{t[2] : t \in ValuesTerms(q, i)} : i \in ValuesAt(q, "class")}

\* the profile of BIND(?profile=<p> as ?req_profile), if the query has it
QueryRequestedProfile(q) ==
    LET at == {i \in 1 .. (Len(q) - 6) :
                   /\ q[i] = Kw("BIND") /\ q[i + 2] = Var("profile")
                   /\ q[i + 3] = Punct("=") /\ q[i + 6] = Var("req_profile")}
    IN  IF at = {} THEN None ELSE Some(q[(CHOOSE i \in at : TRUE) + 4][2])

\* the positions of the IF(?format="m", "w" pieces, outermost first
QueryIfs(q) ==
    Ascending({i \in 1 .. (Len(q) - 6) : q[i] = Kw("IF") /\ q[i + 2] = Var("format")})

\* the parentheses that close the IFs: those between the final "" and AS
QueryIfClosers(q) ==
    LET ifs == QueryIfs(q)
        last == ifs[Len(ifs)]
    IN  Cardinality({j \in (last + 9) .. Len(q) :
                         q[j] = RPar /\ \A k \in (last + 9) .. j : q[k] = RPar})

\* the query parses: every IF that is opened is closed, and no more
WellFormed(q) == QueryIfs(q) = <<>> \/ QueryIfClosers(q) = Len(QueryIfs(q))

\* the variables of ORDER BY DESC(?k1) DESC(?k2) ..., in order
QueryOrderKeys(q) ==
    LET at == Ascending({i \in 1 .. Len(q) : q[i] = Kw("DESC")})
    IN  [i \in 1 .. Len(at) |-> q[at[i] + 2][2]]

\* the (mediatype, weight) pairs of the IF pieces, outermost first
QueryIfPairs(q) ==
    LET ifs == QueryIfs(q) IN [i \in 1 .. Len(ifs) |-> <<q[ifs[i] + 4][2], q[ifs[i] + 6][2]>>]

\* the rank of a weight string in the order of strings: "" is least
StrRank(w) ==
    IF w = "" THEN 0
    ELSE IF w = "1.0" THEN 10
    ELSE CHOOSE n \in 0 .. 9 : WeightStr(n) = w

\* ?req_format for a format: the weight of the outermost IF that names it, ""
\* if none does
RequestedFormatWeight(ifs, format) ==
    LET hits == {i \in 1 .. Len(ifs) : ifs[i][1] = format}
    IN  IF hits = {} THEN "" ELSE ifs[CHOOSE i \in hits : \A j \in hits : i <= j][2]

\* the classes that the classes of S reach over rdfs:subClassOf*, S included
RECURSIVE SuperClasses(_, _)
SuperClasses(g, S) ==
    LET step == S \cup {t[3] : t \in {u \in g : u[2] = subClassOf /\ u[1] \in S}}
    IN  IF step = S THEN S ELSE SuperClasses(g, step)

Distance_GeneralClassesOnly(g, class) ==
    Cardinality(SuperClasses(g, {class}) \cap SeqToSet(GeneralClasses))

\* count(?mid): the solutions of ?class subClassOf* ?mid . ?mid subClassOf*
\* ?general_class within one group
Distance(g, class) ==
    Cardinality({pair \in SuperClasses(g, {class}) \X SeqToSet(GeneralClasses) :
                     pair[2] \in SuperClasses(g, {pair[1]})})

\* a boolean as ORDER BY ranks it: false before true
BoolRank(b) == IF b THEN 2 ELSE 1

\* the grouped rows over graph g for the classes, requested profile and IF
\* pairs of a query; an unbound variable ranks below every bound value
NegotiationRows(g, classes, requested, ifs) ==
    LET constrained == {t \in g : t[2] = constrainsClass /\ t[3] \in classes}
        formats == {t \in g : t[2] = hasResourceFormat}
        matches == {x \in constrained \X formats : x[1][1] = x[2][1]}
        distance == [c \in classes |-> Distance(g, c)]
    IN  {[profile |-> x[1][1], class |-> x[1][3], format |-> x[2][3],
          distance |-> distance[x[1][3]],
          req_profile |-> IF requested = None THEN 0 ELSE BoolRank(x[1][1] = requested[1]),
          def_profile |-> BoolRank(\E t \in g : /\ t[2] = targetClass /\ t[3] = x[1][3]
                                               /\ <<t[1], hasDefaultProfile, x[1][1]>> \in g),
          req_format |-> IF ifs = <<>> THEN -1
                         ELSE StrRank(RequestedFormatWeight(ifs, x[2][3])),
          def_format |-> BoolRank(<<x[1][1], hasDefaultResourceFormat, x[2][3]>> \in g)]
         : x \in {y \in matches : distance[y[1][3]] > 0}}

\* row a sorts strictly before row b under DESC(k1) DESC(k2) ...
SortsBefore(a, b, keys) ==
    \E i \in 1 .. Len(keys) :
        /\ a[keys[i]] > b[keys[i]]
        /\ \A j \in 1 .. (i - 1) : a[keys[j]] = b[keys[j]]

\* the rows LIMIT 1 can leave: those no other row sorts before
FirstRows(rows, keys) == {r \in rows : \A o \in rows : ~SortsBefore(o, r, keys)}

\* select_profile_mediatype(classes, requested_profile, requested_mediatypes),
\* its query put to the graph: a query that does not parse is an error, else
\* the answer is the first row, if there is any
SelectProfileMediatype(classes, requested_profile, requested_mediatypes, flip) ==
    LET q == select_profile_mediatype(classes, requested_profile, requested_mediatypes, flip)
        rows == NegotiationRows(profiles_graph_cache, QueryClasses(q),
                                QueryRequestedProfile(q), QueryIfPairs(q))
        first == FirstRows(rows, QueryOrderKeys(q))
    IN  /\ pc = "idle"
        /\ pc' = "returned"
        /\ call' = [op |-> "select_profile_mediatype",
                    args |-> <<classes, requested_profile, requested_mediatypes>>,
                    hit |-> FALSE]
        /\ sent' = <<q>>
        /\ IF ~WellFormed(q)
           THEN result' = Raised(<<"Exception", "400", "parse error">>)
           ELSE IF rows = {}
           THEN result' = Returned(<<>>)
           ELSE \E r \in first : result' = Returned(<<r>>)
        /\ UNCHANGED <<profiles_graph_cache, caches, search_query, store, traversals,
                       requests, answered>>

\* negotiation over every negotiation graph
InitNegotiation == InitWith(NegotiationGraphs)

NextNegotiation ==
    \E classes \in CandidateClassLists, requested_profile \in RequestedProfiles,
       requested_mediatypes \in RequestedMediatypes, flip \in BOOLEAN :
        SelectProfileMediatype(classes, requested_profile, requested_mediatypes, flip)

SpecNegotiation == InitNegotiation /\ [][NextNegotiation]_vars

ItemConstructReturned == call.op = "generate_item_construct" /\ result.kind = "return"

----------------------------------------------------------------------------
(* Claims *)

\* C1: in every query generate_item_construct returns, ?p is restricted by an
\* explicit VALUES enumeration whose terms are include predicates resolved for
\* (profile, class): a class with no shape or an empty include set never
\* leaves ?p an unrestricted wildcard.
C1_DirectPredicatesEnumerated ==
    ItemConstructReturned =>
        LET q == WhereClause(result.value)
            include == get_item_predicates(profiles_graph_cache, call.args[2],
                                           call.args[1].selected_class).include
        IN  /\ ValuesAt(q, "p") # {}
            /\ \A i \in ValuesAt(q, "p") :
                   ValuesTerms(q, i)
                       \subseteq {Iri(x) : x \in (IF include = None THEN {} ELSE SeqToSet(include[1]))}

\* C2: an item construct whose target has no URI raises; no query naming the
\* absent target <None> is returned.
C2_AbsentTargetRaises ==
    (call.op = "generate_item_construct" /\ call.args[1].uri = None) =>
        /\ result.kind = "raise"
        /\ sent = <<>>

ListingReturned == call.op = "generate_listing_construct" /\ result.kind = "return"

\* the listing annotations the graph holds for (profile, class): the triples
\* of the four listing predicates on a node shape of the profile that targets
\* the class
ListingAnnotations(g, profile, selected_class) ==
    {t \in g : /\ <<profile, hasNodeShape, t[1]>> \in g
               /\ <<t[1], targetClass, selected_class>> \in g
               /\ t[2] \in {inboundChildren, inboundParents, outboundChildren, outboundParents}}

\* C3: generate_listing_construct returns the empty string exactly when the
\* parent item has a URI and the profile resolves no inbound or outbound,
\* child or parent predicate for its class, whatever page and per_page are.
C3_EmptyListingExactlyWhenNothingToList ==
    ListingReturned =>
        ((result.value = <<>>)
             <=> (/\ call.args[1].uri # None
                  /\ ListingAnnotations(profiles_graph_cache, call.args[2],
                                        call.args[1].selected_class) = {}))

\* a parent with a URI and nothing to list, asked for with a pagination window
C3_Witness ==
    /\ ListingReturned
    /\ call.args[1].uri # None
    /\ call.args[3] # None /\ call.args[4] # None
    /\ ListingAnnotations(profiles_graph_cache, call.args[2], call.args[1].selected_class) = {}
    /\ result.value = <<>>

\* the operations that take a pagination window; page and per_page are their
\* last two arguments
PaginatedOps ==
    {"generate_listing_construct", "list_datasets", "list_collections", "list_features",
     "cql_search"}
PageOf(c) == c.args[Len(c.args) - 1]
PerPageOf(c) == c.args[Len(c.args)]

\* the query text the call built: returned by the generator, sent to the
\* store by the service functions; empty when none was built
QueryBuilt ==
    IF call.op = "generate_listing_construct"
    THEN (IF result.kind = "return" THEN result.value ELSE <<>>)
    ELSE (IF sent = <<>> THEN <<>> ELSE sent[1])

LastFour(q) == SubSeq(q, Len(q) - 3, Len(q))

\* C4: with page >= 1 and per_page both present, every paginated query ends
\* with LIMIT per_page OFFSET (page-1)*per_page and has no other LIMIT or
\* OFFSET (1, 20 gives LIMIT 20 OFFSET 0; 3, 10 gives LIMIT 10 OFFSET 20); with
\* page or per_page absent the query has no LIMIT and no OFFSET.
C4_PaginationWindow ==
    (call.op \in PaginatedOps) =>
        LET q == QueryBuilt
            page == PageOf(call)
            per_page == PerPageOf(call)
        IN  /\ (page # None /\ per_page # None /\ call.op # "generate_listing_construct")
                   => q # <<>>
            /\ (page # None /\ per_page # None /\ page[1] >= 1 /\ q # <<>>) =>
                   /\ Len(q) >= 4
                   /\ LastFour(q) = <<Kw("LIMIT"), Num(per_page[1]),
                                      Kw("OFFSET"), Num((page[1] - 1) * per_page[1])>>
                   /\ Count(q, Kw("LIMIT")) = 1
                   /\ Count(q, Kw("OFFSET")) = 1
                   /\ (page[1] = 1 /\ per_page[1] = 20) =>
                          LastFour(q) = <<Kw("LIMIT"), <<"num", "20">>,
                                          Kw("OFFSET"), <<"num", "0">> >>
                   /\ (page[1] = 3 /\ per_page[1] = 10) =>
                          LastFour(q) = <<Kw("LIMIT"), <<"num", "10">>,
                                          Kw("OFFSET"), <<"num", "20">> >>
            /\ (page = None \/ per_page = None) =>
                   /\ Count(q, Kw("LIMIT")) = 0
                   /\ Count(q, Kw("OFFSET")) = 0

\* the third page of ten features, asked of the store
C4_Witness ==
    /\ call.op = "list_features"
    /\ PageOf(call) = Some(3) /\ PerPageOf(call) = Some(10)
    /\ sent # <<>>
    /\ LastFour(sent[1]) = <<Kw("LIMIT"), <<"num", "10">>, Kw("OFFSET"), <<"num", "20">> >>

\* C5: for d >= 0, generate_bnode_construct emits exactly the d triples
\* ?o_i ?p_(i+1) ?o_(i+1), and generate_bnode_select emits exactly d OPTIONAL
\* blocks, the k-th nested inside the k-1 before it, each closed once and each
\* guarded by FILTER(ISBLANK(?o)) on the node its triple starts from.
C5_BNodeDepthMatches ==
    /\ (call.op = "generate_bnode_construct" /\ call.args[1] >= 0) =>
           LET q == result.value
               d == call.args[1]
           IN  /\ Len(q) = 4 * d
               /\ \A i \in 1 .. d :
                      SubSeq(q, 4 * i - 3, 4 * i)
                          = <<VarN("o", i), VarN("p", i + 1), VarN("o", i + 1), Dot>>
    /\ (call.op = "generate_bnode_select" /\ call.args[1] >= 0) =>
           LET q == result.value
               d == call.args[1]
               opt == {i \in 1 .. Len(q) : q[i] = Kw("OPTIONAL")}
           IN  /\ Cardinality(opt) = d
               /\ Count(q, LBrace) = d
               /\ Count(q, RBrace) = d
               /\ Balanced(q)
               /\ \A i \in opt :
                      LET k == Cardinality({j \in opt : j <= i})
                      IN  /\ BraceLevel(q, i) = k - 1
                          /\ SubSeq(q, i + 1, i + 12)
                                 = <<LBrace, Kw("FILTER"), LPar, Kw("ISBLANK"), LPar,
                                     VarN("o", k), RPar, RPar,
                                     VarN("o", k), VarN("p", k + 1), VarN("o", k + 1), Dot>>

\* C5 witness: generate_bnode_select was called with depth 2 and returned two
\* OPTIONAL blocks.
C5_Witness ==
    /\ call.op = "generate_bnode_select"
    /\ call.args[1] = 2
    /\ Count(result.value, Kw("OPTIONAL")) = 2

\* C6: in every query generate_item_construct returns, the variables of the
\* CONSTRUCT template are exactly the variables the WHERE clause binds.
C6_ConstructWhereVariablesAgree ==
    ItemConstructReturned =>
        VarsOf(ConstructTemplate(result.value)) = VarsOf(WhereClause(result.value))

\* C6 witness: an item query with sequence, inverse and depth-3 blank-node
\* variables was returned.
C6_Witness ==
    /\ ItemConstructReturned
    /\ {Var("seq_o2"), Var("s"), Var("inbound_p"), Var("o4"), Var("p4")}
           \subseteq VarsOf(ConstructTemplate(result.value))

\* C7: each sequence path of length n contributes exactly n triples, the first
\* from the item URI and each next one from the object variable of the one
\* before, with the predicates in list order; the variables of one path are
\* shared with no other path; reversing a path (of length >= 2, that its
\* reversal changes) changes the generated text.
C7_SequencePathsChainedAndFresh ==
    (call.op = "generate_sequence_construct" /\ call.args[1] # None /\ TruthyList(call.args[2])) =>
        LET object_uri == call.args[1]
            lists == call.args[2][1]
            q == result.value
        IN  /\ Len(q) = 4 * TotalLen(lists)
            /\ \A k \in 1 .. Len(lists) :
                   LET c == lists[k]
                       t == ChainTokens(q, lists, k)
                   IN  /\ t[1] = Iri(FStr(object_uri))
                       /\ \A i \in 1 .. Len(c) :
                              t[4 * i - 2] = Iri(c[i]) /\ IsVar(t[4 * i - 1]) /\ t[4 * i] = Dot
                       /\ \A i \in 2 .. Len(c) : t[4 * i - 3] = t[4 * i - 5]
                       /\ Cardinality(VarsOf(t)) = Len(c)
                       /\ (Len(c) >= 2 /\ Reverse(c) # c) =>
                              generate_sequence_construct(
                                  object_uri, Some([lists EXCEPT ![k] = Reverse(c)])) # q
            /\ \A k1, k2 \in 1 .. Len(lists) :
                   k1 # k2 => VarsOf(ChainTokens(q, lists, k1)) \cap VarsOf(ChainTokens(q, lists, k2)) = {}

\* a search query object was constructed and is held
SearchConstructed == search_query # None

\* the groups of the UNION in the inner SELECT of the held search query
SearchGroups == search_query[1].where_clause.where_clause[1].group_or_union

\* the solution modifier of the inner SELECT of the held search query
InnerModifier == search_query[1].where_clause.solution_modifier

C9_LimitPropertyReportsCallerLimit ==
    (call.op = "limit" /\ pc = "returned") => result.value = call.args[2]

\* C10: the result identifier is bound in the inner SELECT as
\* URI(CONCAT("urn:hash:", SHA256(CONCAT(STR(?focus_node), STR(?pred),
\* STR(?match), STR(?weight))))) AS ?hashID, whatever the term, limit, offset
\* and predicate lists are.
C10_HashExpressionFixed ==
    SearchConstructed =>
        LET select_clause == search_query[1].where_clause.select_clause
        IN  /\ select_clause.expression
                   = <<Kw("URI"), LPar, Kw("CONCAT"), LPar, Str("urn:hash:"), Comma,
                       Kw("SHA256"), LPar, Kw("CONCAT"), LPar,
                       Kw("STR"), LPar, Var("focus_node"), RPar, Comma,
                       Kw("STR"), LPar, Var("pred"), RPar, Comma,
                       Kw("STR"), LPar, Var("match"), RPar, Comma,
                       Kw("STR"), LPar, Var("weight"), RPar,
                       RPar, RPar, RPar, RPar>>
            /\ select_clause.alias = Var("hashID")
            /\ select_clause.variables
                   = <<Var("focus_node"), Var("pred"), Var("match"), Var("weight")>>

\* a search over a two-word term with direct and path predicates
C10_Witness ==
    /\ SearchConstructed
    /\ call.args[1] = <<"a", " ", "a">>
    /\ call.args[2] = MaxLimit
    /\ TruthyList(call.args[4])
    /\ TruthyList(call.args[5])
    /\ Len(SearchGroups) >= 2
    /\ search_query[1].where_clause.select_clause.expression[1] = Kw("URI")

Whitespace == {" ", "\t", "\n"}

\* the words of a phrase: its maximal runs of characters that are not whitespace
RECURSIVE Words(_)
Words(s) ==
    IF s = <<>> THEN <<>>
    ELSE IF s[1] \in Whitespace THEN Words(Tail(s))
    ELSE LET n == CHOOSE k \in 1 .. Len(s) :
                      /\ \A j \in 1 .. k : s[j] \notin Whitespace
                      /\ (k = Len(s) \/ s[k + 1] \in Whitespace)
         IN  <<SubSeq(s, 1, n)>> \o Words(SubSeq(s, n + 1, Len(s)))

\* C11: the literal of every text-index pattern is the words of the search
\* phrase joined by exactly one '+' each: runs of whitespace count once, and
\* leading or trailing whitespace adds no '+'.
C11_TermWordsJoinedByPlus ==
    SearchConstructed =>
        \A i \in 1 .. Len(SearchGroups) :
            SearchGroups[i].literal = Join(Words(call.args[1]), "+")

\* C12: the inner SELECT holds one UNION whose alternatives are one group for
\* the plain predicates when that list is non-empty, searched on ?focus_node,
\* then one group per (path, predicates) entry, searched on the node the
\* entry's path triples reach; each group invokes text:query once, over the
\* group's own predicates.
C12_OneGroupPerPredicateSource ==
    SearchConstructed =>
        LET plain == call.args[4]
            entries == call.args[5][1]
            direct == IF plain # None /\ plain[1] # <<>> THEN 1 ELSE 0
        IN  /\ Len(search_query[1].where_clause.where_clause) = 1
            /\ Len(SearchGroups) = direct + Len(entries)
            /\ \A i \in 1 .. Len(SearchGroups) :
                   SearchGroups[i].verb = Iri("http://jena.apache.org/text#query")
            /\ direct = 1 =>
                   /\ SearchGroups[1].subject[1] = Var("focus_node")
                   /\ SearchGroups[1].predicates
                          = [j \in 1 .. Len(plain[1]) |-> Iri(plain[1][j])]
                   /\ SearchGroups[1].triples_block = <<>>
            /\ \A k \in 1 .. Len(entries) :
                   LET grp == SearchGroups[direct + k]
                   IN  /\ grp.subject[1] = Var("fts_search_node")
                       /\ grp.triples_block = entries[k][1]
                       /\ grp.predicates
                              = [j \in 1 .. Len(entries[k][2]) |-> Iri(entries[k][2][j])]

\* plain predicates and two path entries: three alternatives
C12_Witness ==
    /\ SearchConstructed
    /\ TruthyList(call.args[4])
    /\ Len(call.args[5][1]) = 2
    /\ Len(SearchGroups) = 3
    /\ SearchGroups[3].triples_block = call.args[5][1][2][1]

NegotiationAnswered == call.op = "select_profile_mediatype" /\ result.kind = "return"

\* the candidate rows of the call: one per candidate class, profile
\* constraining it and format of that profile
CandidateRows ==
    NegotiationRows(profiles_graph_cache, SeqToSet(call.args[1]),
                    IF Truthy(call.args[2]) THEN call.args[2] ELSE None,
                    QueryIfPairs(sent[1]))

C14_MostSpecificClassWins ==
    (/\ NegotiationAnswered
     /\ call.args[2] = None /\ call.args[3] = None
     /\ {NegA, NegB} \subseteq SeqToSet(call.args[1])
     /\ <<NegP1, constrainsClass, NegA>> \in profiles_graph_cache
     /\ <<NegP2, constrainsClass, NegB>> \in profiles_graph_cache
     /\ <<"_:shB", hasDefaultProfile, NegP2>> \in profiles_graph_cache)
        => /\ result.value # <<>>
           /\ result.value[1].profile = NegP1
           /\ result.value[1].class = NegA
           /\ Distance(profiles_graph_cache, NegA) > Distance(profiles_graph_cache, NegB)

\* the same, P1 being no default profile and having no default format
C14_Witness ==
    /\ NegotiationAnswered
    /\ call.args[2] = None /\ call.args[3] = None
    /\ call.args[1] = <<NegA, NegB>>
    /\ <<NegP1, constrainsClass, NegA>> \in profiles_graph_cache
    /\ <<NegP2, constrainsClass, NegB>> \in profiles_graph_cache
    /\ <<"_:shB", hasDefaultProfile, NegP2>> \in profiles_graph_cache
    /\ <<"_:shA", hasDefaultProfile, NegP1>> \notin profiles_graph_cache
    /\ <<NegP1, hasDefaultResourceFormat, Html>> \notin profiles_graph_cache
    /\ result.value # <<>>
    /\ result.value[1].profile = NegP1

\* C15: while the process lives, the profile graph is read at most once per
\* (function, profile, class): a second resolution of the same key is served
\* from memory.  The resolvers carry no cache, so the second call reads the
\* graph again and this fails.
C15_OneTraversalPerKey == \A k \in TraversalKeys : traversals[k] <= 1


\* the entries of cache c without entry i
Without(c, i) == SubSeq(c, 1, i - 1) \o SubSeq(c, i + 1, Len(c))

\* the call just ended was to the memoized function name
CallEnded(name) == pc = "returned" /\ call.op = name

\* what a call of the memoized function name does to its cache: a hit
\* returns the stored value and makes its entry the most recent, a miss that
\* returns appends its entry, dropping the oldest one of a full cache, and a
\* miss that raises leaves the cache alone
CacheStep(name) ==
    LET c == caches[name]
        i == LruFind(c, call'.args)
    IN  IF call'.hit
        THEN /\ i # 0
             /\ result' = Returned(c[i][2])
             /\ sent' = <<>>
             /\ caches'[name] = Without(c, i) \o <<c[i]>>
        ELSE /\ i = 0
             /\ caches'[name] =
                    IF result'.kind # "return" THEN c
                    ELSE (IF Len(c) >= Maxsize[name] THEN Tail(c) ELSE c)
                         \o <<(<<call'.args, result'.value>>)>>

\* C16: every cache holds at most maxsize entries (128, 50, 20, 20, 20) and
\* at most one per argument tuple; a miss on a full cache evicts the least
\* recently used entry, and a hit returns the stored value without
\* recomputing it.
C16_CachesBoundedAndLru ==
    /\ [](\A name \in CacheNames :
             /\ Len(caches[name]) <= Maxsize[name]
             /\ Cardinality({caches[name][i][1] : i \in 1 .. Len(caches[name])})
                    = Len(caches[name]))
    /\ [][\A name \in CacheNames :
              pc = "idle" /\ CallEnded(name)' => CacheStep(name)]_vars

\* a miss on the full cache of get_object_uri_and_classes has evicted the
\* entry of the oldest call, and a hit has followed it
C16_Witness ==
    /\ CallEnded("get_object_uri_and_classes")
    /\ call.hit
    /\ Len(caches["get_object_uri_and_classes"]) = ObjectUriMaxsize
    /\ caches["get_object_uri_and_classes"][1] = ServedEntry("get_object_uri_and_classes", 2)
    /\ LruFind(caches["get_object_uri_and_classes"],
               ServedEntry("get_object_uri_and_classes", 1)[1]) = 0


\* the memoized functions whose value is the rows the store answers
StoreBacked == {"count_features", "list_features", "get_feature_construct"}

\* C17: a value served from a cache equals the value an uncached call would
\* compute now, whatever has happened to the contents of the triplestore
\* since the value was stored.
C17_CachedEqualsUncached ==
    \A name \in StoreBacked :
        CallEnded(name) /\ call.hit => result.value = FeatureRows(store)


\* the call just ended queried the triplestore and the triplestore failed
StoreFailed == pc = "returned" /\ \E i \in 1 .. Len(answered) : ~answered[i].ok

\* C18: an operation whose query the triplestore fails ends by raising an
\* error that carries the store's code and message; it never returns None,
\* an empty result or a placeholder tuple instead.
C18_StoreFailureRaises ==
    StoreFailed =>
        /\ result.kind = "raise"
        /\ \E i \in 1 .. Len(answered) :
               result.value = <<"Exception", answered[i].code, answered[i].message>>


\* a query with the contents of its string literals blanked: its clauses,
\* its patterns, and where its string literals are
Shape(q) == [i \in 1 .. Len(q) |-> IF q[i][1] = "str" THEN Str("") ELSE q[i]]

\* an identifier of plain letters and digits in the place of id
Benign(id) == IF id = None THEN None ELSE Some("ds1")

\* the query the operation of the call just ended builds for plain identifiers
BenignQuery ==
    IF call.op = "get_dataset_construct"
    THEN get_dataset_construct_query(Benign(call.args[1]), call.args[2])
    ELSE IF call.op = "count_features"
    THEN count_features_query(Benign(call.args[1]), Benign(call.args[2]), call.args[3])
    ELSE get_uri_query(Benign(call.args[1]), call.args[2])

\* C19: whatever characters an identifier of the request holds (a double
\* quote, a backslash, a line break), the query sent has the structure of
\* the query for a plain identifier: the same clauses and patterns, and
\* string literals in the same number and places.
C19_HostileInputKeepsStructure ==
    pc = "returned" /\ sent # <<>>
    /\ call.op \in {"get_dataset_construct", "count_features", "get_uri"}
        => Shape(sent[1]) = Shape(BenignQuery)


\* no node shape of the profile targets the class
NoShapeFor(profile, class) ==
    ~ \E t \in profiles_graph_cache :
          /\ t[1] = profile
          /\ t[2] = hasNodeShape
          /\ <<t[3], targetClass, class>> \in profiles_graph_cache

\* a predicate resolver was called directly for a class no shape targets
ResolvedWithoutShape(op) ==
    /\ pc = "returned"
    /\ call.op = op
    /\ NoShapeFor(call.args[1], call.args[2])

\* C20: for a profile with no shape that targets the class, both resolvers
\* return four empty collections, and the fragment builders treat what they
\* return as they treat empty sets.
C20_NoShapeYieldsEmptyCollections ==
    /\ ResolvedWithoutShape("get_listing_predicates") =>
           result.value = [inbound_children |-> <<>>, inbound_parents |-> <<>>,
                           outbound_children |-> <<>>, outbound_parents |-> <<>>]
    /\ ResolvedWithoutShape("get_item_predicates") =>
           /\ result.value = [include |-> Some(<<>>), exclude |-> Some(<<>>),
                              inverse |-> Some(<<>>), sequence |-> Some(<<>>)]
           /\ generate_include_predicates(result.value.include)
                  = generate_include_predicates(Some(<<>>))
           /\ generate_inverse_predicates(result.value.inverse)
                  = generate_inverse_predicates(Some(<<>>))
           /\ generate_sequence_construct(Some("urn:item:1"), result.value.sequence)
                  = generate_sequence_construct(Some("urn:item:1"), Some(<<>>))


\* a count query was returned for the item of the call
CountReturned == call.op = "generate_listing_count_construct" /\ result.kind = "return"

\* the group of the inner SELECT of a count query: what is counted
CountedPattern(q) == SubSeq(q, IndexOf(q, Kw("SELECT")) + 10, Len(q) - 2)

\* C21: the count query is a CONSTRUCT that binds prez:count onto one
\* subject: the item's URI, counting <uri> rdfs:member ?item, when the item
\* has a URI; the general class, counting ?item a <general_class>, when it
\* has none, and then no term of the query is built from the absent URI.
C21_CountSubjectFollowsUri ==
    CountReturned =>
        LET q == result.value
            item == call.args[1]
            uri == Iri(FStr(item.uri))
            class == Iri(item.general_class)
        IN  /\ Count(q, Kw("CONSTRUCT")) = 1
            /\ Balanced(q)
            /\ IF Truthy(item.uri)
               THEN /\ ConstructTemplate(q) = <<uri, Kw("prez:count"), Var("count")>>
                    /\ CountedPattern(q) = <<uri, Kw("rdfs:member"), Var("item"), Dot>>
               ELSE /\ ConstructTemplate(q) = <<class, Kw("prez:count"), Var("count")>>
                    /\ CountedPattern(q) = <<Var("item"), Kw("a"), class, Dot>>
                    /\ Count(q, uri) = 0

\* the listing of an item with an empty URI was counted by class
C21_Witness ==
    /\ CountReturned
    /\ call.args[1].uri = Some("")
    /\ Count(result.value, Iri(call.args[1].general_class)) = 2


\* the tokens of sub occur in q, in a row
Contains(q, sub) ==
    \E i \in 1 .. (Len(q) - Len(sub) + 1) : SubSeq(q, i, i + Len(sub) - 1) = sub

\* ?item a <class> .
ClassPattern(class) == <<Var("item"), Kw("a"), Iri(class), Dot>>

\* prez:memberList a rdf:Bag ; rdfs:member ?item .
BagTriples ==
    <<Kw("prez:memberList"), Kw("a"), Kw("rdf:Bag"), Semi, Kw("rdfs:member"), Var("item"), Dot>>

\* C22: for a parent without URI the listing query is not empty, its WHERE
\* clause selects ?item a <general_class> and its template makes ?item an
\* rdfs:member of the prez:memberList bag; for a parent with a URI neither
\* the class pattern nor the member-list triples appear.
C22_GeneralListingWrapsMembers ==
    ListingReturned =>
        LET q == result.value
            parent_item == call.args[1]
        IN  IF ~Truthy(parent_item.uri)
            THEN /\ q # <<>>
                 /\ Contains(WhereClause(q), ClassPattern(parent_item.general_class))
                 /\ Contains(ConstructTemplate(q), BagTriples)
            ELSE /\ ~Contains(q, ClassPattern(parent_item.general_class))
                 /\ Count(q, Kw("prez:memberList")) = 0
                 /\ Count(q, Kw("rdf:Bag")) = 0

\* a parent without URI was listed for a class with resolved predicates
C22_Witness ==
    /\ ListingReturned
    /\ ~Truthy(call.args[1].uri)
    /\ ~NothingToList_AnyParent(call.args[1],
                                get_listing_predicates(profiles_graph_cache, call.args[2],
                                                       call.args[1].selected_class))
    /\ Contains(ConstructTemplate(result.value), BagTriples)


\* the tasks whose call has ended
Ended == {t \in Tasks : pc[t] = "returned"}

\* the cache of name holds at most maxsize entries, one per key, and every
\* entry under a raced key holds what the function computes for it, or a
\* future some task is still resolving
CacheSound(name) ==
    /\ Len(caches[name]) <= Maxsize[name]
    /\ Cardinality({caches[name][i][1] : i \in 1 .. Len(caches[name])}) = Len(caches[name])
    /\ \A c \in RaceCalls :
           LET i == LruFind(caches[name], c[2])
           IN  (c[1] = name /\ i # 0) =>
                   \/ caches[name][i][2] = Computed(name, c[2], profiles_graph_cache, store)
                   \/ name = "count_features" /\ Owner(c[2]) # 0

MediatypesRequested == call.op = "select_profile_mediatype" /\ TruthyList(call.args[3])

\* the (mediatype, weight) pairs of the requested list, in list order
ListedPairs(requested_mediatypes) ==
    [i \in 1 .. Len(requested_mediatypes) |->
        <<requested_mediatypes[i][2], WeightStr(requested_mediatypes[i][1])>>]

\* C24: for a non-empty list of n (weight, mediatype) pairs, duplicates
\* included, the BIND holds n nested IF tests, one per pair in list order
\* with the first pair outermost, and n closing parentheses after the
\* empty-string fallback.
C24_OneIfPerPairInListOrder ==
    MediatypesRequested =>
        LET q == sent[1]
            list == call.args[3][1]
        IN  /\ Count(q, Var("req_format")) >= 1
            /\ QueryIfPairs(q) = ListedPairs(list)
            /\ QueryIfClosers(q) = Len(list)


\* the predicate sets resolved for the listing call
ListedPredicates ==
    get_listing_predicates(profiles_graph_cache, call.args[2], call.args[1].selected_class)

\* the link variables the claim is about: one per non-empty predicate set,
\* and the general one for a parent without URI
LinkVariables(parent_item, preds) ==
    (IF preds.outbound_children # <<>> THEN {"outbound_children_link"} ELSE {})
        \union (IF preds.outbound_parents # <<>> THEN {"outbound_parents_link"} ELSE {})
        \union (IF preds.inbound_children # <<>> THEN {"inbound_children_link"} ELSE {})
        \union (IF preds.inbound_parents # <<>> THEN {"inbound_parent_link"} ELSE {})
        \union (IF ~Truthy(parent_item.uri) THEN {"outbound_general_link"} ELSE {})

\* C25: in a non-empty listing query, every prez:link variable the template
\* uses for a non-empty predicate set, and ?outbound_general_link for a
\* parent without URI, is the target of a BIND of the WHERE clause.
C25_LinkVariablesAreBound ==
    (ListingReturned /\ result.value # <<>>) =>
        LET q == result.value
        IN  \A v \in LinkVariables(call.args[1], ListedPredicates) :
                Contains(ConstructTemplate(q), <<Kw("prez:link"), Var(v)>>) =>
                    Contains(WhereClause(q), <<Kw("AS"), Var(v), RPar>>)


\* the positions of the VALUES blocks of q that enumerate nothing
EmptyValues(q) ==
    {i \in 1 .. (Len(q) - 3) : q[i] = Kw("VALUES") /\ q[i + 2] = LBrace /\ q[i + 3] = RBrace}

\* C26: no non-empty listing query holds a VALUES block with an empty
\* enumeration, which would leave the WHERE clause without solutions; in
\* particular not when the parent has a URI and only inbound predicates
\* resolve.
C26_NoEmptyValuesBlock ==
    (ListingReturned /\ result.value # <<>>) => EmptyValues(result.value) = {}


\* C27: for a parent without URI, whatever predicate sets resolve, the
\* listing query holds no IRI term built from the absent URI, neither in
\* the template nor in the patterns of the WHERE clause.
C27_NoIriFromAbsentUri ==
    (ListingReturned /\ call.args[1].uri = None) =>
        /\ Count(ConstructTemplate(result.value), Iri(FStr(None))) = 0
        /\ Count(WhereClause(result.value), Iri(FStr(None))) = 0


\* get_object_uri_and_classes returned for arguments that make it query the
\* store: a dataset id, or one of the three URIs
ObjectLookupReturned ==
    /\ call.op = "get_object_uri_and_classes"
    /\ result.kind = "return"
    /\ \E i \in 3 .. 6 : Truthy(call.args[i])

\* C28: a failed or not-found outcome of get_object_uri_and_classes is not
\* memoized: a call that returns the not-found tuple has queried the store
\* itself, it is never answered from the cache by the outcome of an earlier
\* call with the same arguments.
C28_NotFoundIsNotMemoized ==
    (ObjectLookupReturned /\ result.value = NotFound) => (~call.hit /\ sent # <<>>)


\* C29: every return path of get_object_uri_and_classes, by identifiers, by
\* URIs, on a store failure and without any identifying argument, returns a
\* tuple of seven elements.
C29_SevenElementsOnEveryPath ==
    (call.op = "get_object_uri_and_classes" /\ result.kind = "return") =>
        Len(result.value) = 7


\* the constructor was called with term, limit, offset and a non-empty
\* non_shacl_predicates, the two other parameters left at their default
DefaultsLeft ==
    /\ call.op = "SearchQueryFusekiFTS"
    /\ TruthyList(call.args[4])
    /\ call.args[5] = None
    /\ call.args[6] = None

\* C30: constructing SearchQueryFusekiFTS with only term, limit, offset and
\* a non-empty non_shacl_predicates succeeds, and the query has one
\* text-search group and the five standard search-result triples in its
\* CONSTRUCT template.
C30_DefaultsConstruct ==
    DefaultsLeft =>
        /\ result.kind = "return"
        /\ SearchConstructed
        /\ Len(SearchGroups) = 1
        /\ Len(search_query[1].construct_template) = 5


====
